---- MODULE Spec2Model ----
(***************************************************************************)
(* A model of the expression language's front end and middle end:         *)
(* parser.ParseWithConfig (src/parser/parser.go) and optimizer.Optimize   *)
(* (src/optimizer/*.go).  The parser is a recursive-descent/Pratt parser  *)
(* over a token array; every parse function of the source is an operator  *)
(* that takes the parser record p and returns the updated record together *)
(* with the node it built.  The optimizer is a sequence of AST walks; each *)
(* walk of Optimize is one action of the state machine.                   *)
(*                                                                         *)
(* Packages that the source imports but that are not part of src/ (the     *)
(* lexer, the operator tables, the builtin index, ast.Walk, ast.Patch and  *)
(* the specialization passes) are modelled from spec.md.                   *)
(***************************************************************************)
EXTENDS Integers, Sequences, FiniteSets, TLC

(***************************************************************************)
(* Small helpers on sequences.                                             *)
(***************************************************************************)
RECURSIVE SeqReverse(_)
SeqReverse(s) == IF s = <<>> THEN <<>> ELSE Append(SeqReverse(Tail(s)), Head(s))

Last(s) == s[Len(s)]

Front(s) == SubSeq(s, 1, Len(s) - 1)

(***************************************************************************)
(* Integers.  A Go int holds 64 bits, more than the checker's integers, so *)
(* an integer value is a signed decimal numeral: neg is the sign and mag   *)
(* the decimal digits, least significant first, with no high zero (zero is *)
(* <<0>>).                                                                 *)
(***************************************************************************)
RECURSIVE MulAdd(_, _, _)
\* mag * m + carry, on digit sequences (least significant digit first).
MulAdd(mag, m, carry) ==
    IF mag = <<>>
    THEN IF carry = 0 THEN <<>>
         ELSE <<carry % 10>> \o MulAdd(<<>>, m, carry \div 10)
    ELSE LET x == Head(mag) * m + carry
         IN  <<x % 10>> \o MulAdd(Tail(mag), m, x \div 10)

RECURSIVE MagGreaterBE(_, _)
\* a > b for two digit sequences of the same length, most significant first.
MagGreaterBE(a, b) ==
    IF a = <<>> THEN FALSE
    ELSE IF Head(a) # Head(b) THEN Head(a) > Head(b)
    ELSE MagGreaterBE(Tail(a), Tail(b))

MagGreater(a, b) ==
    IF Len(a) # Len(b) THEN Len(a) > Len(b)
    ELSE MagGreaterBE(SeqReverse(a), SeqReverse(b))

RECURSIVE MagOfNat(_)
MagOfNat(n) == IF n < 10 THEN <<n>> ELSE <<n % 10>> \o MagOfNat(n \div 10)

RECURSIVE NatOfMag(_)
NatOfMag(mag) == IF mag = <<>> THEN 0 ELSE Head(mag) + 10 * NatOfMag(Tail(mag))

FromInt(n) == IF n < 0 THEN [neg |-> TRUE, mag |-> MagOfNat(0 - n)]
              ELSE [neg |-> FALSE, mag |-> MagOfNat(n)]

ToInt(v) == IF v.neg THEN 0 - NatOfMag(v.mag) ELSE NatOfMag(v.mag)

IntGreater(a, b) ==
    IF a.neg # b.neg THEN b.neg
    ELSE IF a.neg THEN MagGreater(b.mag, a.mag) ELSE MagGreater(a.mag, b.mag)

\* math.MaxInt64 = 2^63 - 1 = 9223372036854775807
MaxInt64 ==
    [neg |-> FALSE,
     mag |-> SeqReverse(<<9,2,2,3,3,7,2,0,3,6,8,5,4,7,7,5,8,0,7>>)]

\* math.MaxInt on the platform of the build (64-bit int).
MaxInt == MaxInt64

\* The arithmetic of the fold pass.  The operands the model folds are small,
\* so the 64-bit wrap-around of Go's int never comes into play.
IntNeg(a) == IF a.mag = <<0>> THEN a ELSE [neg |-> ~a.neg, mag |-> a.mag]

IntAdd(a, b) == FromInt(ToInt(a) + ToInt(b))

IntSub(a, b) == FromInt(ToInt(a) - ToInt(b))

IntMul(a, b) == FromInt(ToInt(a) * ToInt(b))

\* Go's % truncates towards zero: the result has the sign of the dividend.
IntRem(a, b) ==
    LET x == NatOfMag(a.mag)
        y == NatOfMag(b.mag)
    IN  IF a.neg THEN FromInt(0 - (x % y)) ELSE FromInt(x % y)

(***************************************************************************)
(* Floats.  IEEE arithmetic is not computed: a float64 value is the term   *)
(* that denotes it, so that two values are equal only when they were       *)
(* computed the same way.                                                  *)
(***************************************************************************)
FloatOfInt(i) == [fk |-> "int", i |-> i]

FloatOp(op, x, y) == [fk |-> op, x |-> x, y |-> y]

FloatNeg(x) == [fk |-> "neg", x |-> x]

(***************************************************************************)
(* strconv of the Go standard library, by its documented behaviour.        *)
(***************************************************************************)
DigitVal ==
    ("0" :> 0) @@ ("1" :> 1) @@ ("2" :> 2) @@ ("3" :> 3) @@ ("4" :> 4) @@
    ("5" :> 5) @@ ("6" :> 6) @@ ("7" :> 7) @@ ("8" :> 8) @@ ("9" :> 9) @@
    ("a" :> 10) @@ ("b" :> 11) @@ ("c" :> 12) @@ ("d" :> 13) @@ ("e" :> 14) @@
    ("f" :> 15)

IsDigits(chars, base) ==
    /\ chars # <<>>
    /\ \A i \in 1..Len(chars) :
          chars[i] \in DOMAIN DigitVal /\ DigitVal[chars[i]] < base

RECURSIVE Accumulate(_, _, _)
\* Horner's rule over the digit characters, most significant first.
Accumulate(chars, base, mag) ==
    IF chars = <<>> THEN mag
    ELSE Accumulate(Tail(chars), base, MulAdd(mag, base, DigitVal[Head(chars)]))

\* strconv.ParseInt(s, base, 64) for an unsigned literal: base 0 takes the
\* base from the prefix.  A value out of the int64 range is a range error and
\* the result is the nearest int64; a malformed literal is a syntax error and
\* the result is 0.
ParseInt(chars, base) ==
    LET hex    == base = 0 /\ Len(chars) >= 2 /\ chars[1] = "0" /\ chars[2] = "x"
        b      == IF hex THEN 16 ELSE 10
        digits == IF hex THEN SubSeq(chars, 3, Len(chars)) ELSE chars
    IN  IF ~IsDigits(digits, b)
        THEN [number |-> FromInt(0), err |-> "invalid syntax"]
        ELSE LET v == [neg |-> FALSE, mag |-> Accumulate(digits, b, <<0>>)]
             IN  IF IntGreater(v, MaxInt64)
                 THEN [number |-> MaxInt64, err |-> "value out of range"]
                 ELSE [number |-> v, err |-> "nil"]

\* strconv.ParseFloat(s, 64) for literals of the form digits "." digits: the
\* value is the decimal mantissa and exponent the literal denotes.
ParseFloat(chars) ==
    LET dots == {i \in 1..Len(chars) : chars[i] = "."}
    IN  IF Cardinality(dots) # 1
        THEN [number |-> FloatOfInt(FromInt(0)), err |-> "invalid syntax"]
        ELSE LET d    == CHOOSE i \in dots : TRUE
                 ip   == SubSeq(chars, 1, d - 1)
                 fp   == SubSeq(chars, d + 1, Len(chars))
             IN  IF ~IsDigits(ip \o fp, 10)
                 THEN [number |-> FloatOfInt(FromInt(0)), err |-> "invalid syntax"]
                 ELSE [number |-> [fk   |-> "dec",
                                   mant |-> Accumulate(ip \o fp, 10, <<0>>),
                                   exp  |-> 0 - Len(fp)],
                       err    |-> "nil"]

\* strings.Replace(value, "_", "", -1)
RECURSIVE StripUnderscores(_)
StripUnderscores(chars) ==
    IF chars = <<>> THEN <<>>
    ELSE IF Head(chars) = "_" THEN StripUnderscores(Tail(chars))
    ELSE <<Head(chars)>> \o StripUnderscores(Tail(chars))

Contains(chars, c) == \E i \in 1..Len(chars) : chars[i] = c

ContainsAny(chars, cs) == \E i \in 1..Len(chars) : chars[i] \in cs

(***************************************************************************)
(* Tokens (package lexer).  A token is (kind, value, location); the value  *)
(* of a Number token is its sequence of characters, every other value is a *)
(* string.  The location is the token's index in the stream.               *)
(***************************************************************************)
Tok(kind, value, loc) == [kind |-> kind, value |-> value, loc |-> loc]

\* Lex: the lexemes with their locations, followed by the EOF token.
Lex(lexemes) ==
    [i \in 1..(Len(lexemes) + 1) |->
        IF i <= Len(lexemes)
        THEN Tok(lexemes[i].kind, lexemes[i].value, i - 1)
        ELSE Tok("EOF", "EOF", Len(lexemes))]

\* Token.Is(kind)
Is(tok, kind) == tok.kind = kind

\* Token.Is(kind, value)
IsV(tok, kind, value) == tok.kind = kind /\ tok.value = value

\* utils.IsValidIdentifier on the value of an operator token: the operators
\* spelled as words.
WordOperators ==
    {"not", "in", "and", "or", "matches", "contains", "startsWith",
     "endsWith", "let"}

IsValidIdentifier(value) == value \in WordOperators

(***************************************************************************)
(* The operator tables (package operator).                                 *)
(***************************************************************************)
Op(prec, assoc) == [Precedence |-> prec, Associativity |-> assoc]

Unary ==
    ("not" :> Op(50, "Left")) @@ ("!" :> Op(50, "Left")) @@
    ("-" :> Op(90, "Left")) @@ ("+" :> Op(90, "Left"))

Binary ==
    ("|" :> Op(0, "Left")) @@
    ("or" :> Op(10, "Left")) @@ ("||" :> Op(10, "Left")) @@
    ("and" :> Op(15, "Left")) @@ ("&&" :> Op(15, "Left")) @@
    ("==" :> Op(20, "Left")) @@ ("!=" :> Op(20, "Left")) @@
    ("<" :> Op(20, "Left")) @@ (">" :> Op(20, "Left")) @@
    (">=" :> Op(20, "Left")) @@ ("<=" :> Op(20, "Left")) @@
    ("in" :> Op(20, "Left")) @@ ("matches" :> Op(20, "Left")) @@
    ("contains" :> Op(20, "Left")) @@ ("startsWith" :> Op(20, "Left")) @@
    ("endsWith" :> Op(20, "Left")) @@
    (".." :> Op(25, "Left")) @@
    ("+" :> Op(30, "Left")) @@ ("-" :> Op(30, "Left")) @@
    ("*" :> Op(60, "Left")) @@ ("/" :> Op(60, "Left")) @@
    ("%" :> Op(60, "Left")) @@
    ("**" :> Op(100, "Right")) @@ ("^" :> Op(100, "Right")) @@
    ("??" :> Op(500, "Left"))

\* operator.Unary[token.Value] / operator.Binary[token.Value]: the lookup is
\* by value alone.  The text of a number is never the name of an operator.
InUnary(tok) == tok.kind # "Number" /\ tok.value \in DOMAIN Unary

InBinary(tok) == tok.kind # "Number" /\ tok.value \in DOMAIN Binary

(***************************************************************************)
(* The builtins.                                                           *)
(***************************************************************************)
\* var predicates: the predicate builtins and their arities.
predicates ==
    ("all" :> 2) @@ ("none" :> 2) @@ ("any" :> 2) @@ ("one" :> 2) @@
    ("filter" :> 2) @@ ("map" :> 2) @@ ("count" :> 2) @@ ("find" :> 2) @@
    ("findIndex" :> 2) @@ ("findLast" :> 2) @@ ("findLastIndex" :> 2) @@
    ("groupBy" :> 2) @@ ("reduce" :> 3)

\* builtin.Index: the names of all builtins, the predicates among them.
BuiltinIndex == DOMAIN predicates \cup {"len", "first", "last", "hasPrefix"}

InPredicates(tok) == tok.kind # "Number" /\ tok.value \in DOMAIN predicates

InBuiltinIndex(tok) == tok.kind # "Number" /\ tok.value \in BuiltinIndex

(***************************************************************************)
(* The AST (package ast).  Every node carries its location; NoLoc is the   *)
(* location of a node that was given none.  NoNode is Go's nil node.       *)
(***************************************************************************)
NoLoc == -1

NoNode == [kind |-> "nil"]

NilNode(loc) == [kind |-> "Nil", loc |-> loc]

BoolNode(v, loc) == [kind |-> "Bool", bval |-> v, loc |-> loc]

IntegerNode(v, loc) == [kind |-> "Integer", ival |-> v, type |-> "nil", loc |-> loc]

FloatNode(v, loc) == [kind |-> "Float", fval |-> v, type |-> "nil", loc |-> loc]

StringNode(v, loc) == [kind |-> "String", sval |-> v, type |-> "nil", loc |-> loc]

ConstantNode(v, loc) == [kind |-> "Constant", cval |-> v, loc |-> loc]

IdentifierNode(v, loc) == [kind |-> "Identifier", name |-> v, loc |-> loc]

UnaryNode(op, n, loc) == [kind |-> "Unary", op |-> op, node |-> n, loc |-> loc]

BinaryNode(op, l, r, loc) ==
    [kind |-> "Binary", op |-> op, left |-> l, right |-> r, loc |-> loc]

ArrayNode(nodes, loc) == [kind |-> "Array", nodes |-> nodes, loc |-> loc]

MapNode(pairs, loc) == [kind |-> "Map", pairs |-> pairs, loc |-> loc]

PairNode(k, v, loc) == [kind |-> "Pair", key |-> k, value |-> v, loc |-> loc]

MemberNode(n, property, optional, loc) ==
    [kind |-> "Member", node |-> n, property |-> property,
     optional |-> optional, loc |-> loc]

ChainNode(n, loc) == [kind |-> "Chain", node |-> n, loc |-> loc]

SliceNode(n, from, to, loc) ==
    [kind |-> "Slice", node |-> n, from |-> from, to |-> to, loc |-> loc]

CallNode(callee, args, loc) ==
    [kind |-> "Call", callee |-> callee, args |-> args, loc |-> loc]

BuiltinNode(name, args, loc) ==
    [kind |-> "Builtin", name |-> name, args |-> args, loc |-> loc]

ClosureNode(n, loc) == [kind |-> "Closure", node |-> n, loc |-> loc]

PointerNode(name, loc) == [kind |-> "Pointer", name |-> name, loc |-> loc]

ConditionalNode(cond, e1, e2, loc) ==
    [kind |-> "Conditional", cond |-> cond, exp1 |-> e1, exp2 |-> e2, loc |-> loc]

VariableDeclaratorNode(name, value, expr, loc) ==
    [kind |-> "VariableDeclarator", name |-> name, value |-> value,
     expr |-> expr, loc |-> loc]

\* node.SetLocation(loc)
SetLocation(n, loc) == IF n = NoNode THEN n ELSE [n EXCEPT !.loc = loc]

(***************************************************************************)
(* The parser (src/parser/parser.go).                                      *)
(*                                                                         *)
(* p is the parser struct.  Besides the fields of the source it records,   *)
(* for the properties below, the history of the call: reports is every     *)
(* error report made (in order, retained or not), pointerDepths the        *)
(* closure depths at which Pointer nodes were built and primaryPointers,   *)
(* for every `#` or `.` token parsePrimary met, the closure depth and the  *)
(* number of errors reported before.                                       *)
(***************************************************************************)
NoErr == [Location |-> NoLoc, Message |-> <<>>]

FileError(loc, msg) == [Location |-> loc, Message |-> msg]

Config(disabled, constFns) == [Disabled |-> disabled, ConstFns |-> constFns]

NewParser(tokens, config) ==
    [tokens |-> tokens, current |-> tokens[1], pos |-> 0, err |-> NoErr,
     depth |-> 0, config |-> config,
     reports |-> <<>>, pointerDepths |-> {},
     primaryPointers |-> <<>>]

\* The text of "%v" for a token.
TokenString(tok) == <<tok.kind, tok.value>>

\* errorAt without its test of p.err: the last error is kept.
errorAtLast(p, token, message) ==
    LET e == FileError(token.loc, message)
    IN  [p EXCEPT !.reports = Append(@, e), !.err = e]

\* func (p *parser) errorAt: only the first error is kept.
errorAt(p, token, message) ==
    LET e == FileError(token.loc, message)
    IN  [p EXCEPT !.reports = Append(@, e),
                  !.err = IF @ = NoErr THEN e ELSE @]

\* func (p *parser) error
error(p, message) == errorAt(p, p.current, message)

\* func (p *parser) next
next(p) ==
    LET q == [p EXCEPT !.pos = @ + 1]
    IN  IF q.pos >= Len(q.tokens)
        THEN error(q, <<"unexpected end of expression">>)
        ELSE [q EXCEPT !.current = q.tokens[q.pos + 1]]

UnexpectedToken(tok) == <<"unexpected token", TokenString(tok)>>

\* func (p *parser) expect(kind)
expect(p, kind) ==
    IF Is(p.current, kind) THEN next(p)
    ELSE error(p, UnexpectedToken(p.current))

\* func (p *parser) expect(kind, value)
expectV(p, kind, value) ==
    IF IsV(p.current, kind, value) THEN next(p)
    ELSE error(p, UnexpectedToken(p.current))

\* p.depth++
incDepth(p) == [p EXCEPT !.depth = @ + 1]

\* parseClosure without its p.depth--.
decDepthMissing(p) == p

\* p.depth--

decDepth(p) == [p EXCEPT !.depth = @ - 1]

\* The right operand parsed at the operator's own precedence, whatever its
\* associativity.
rightPrecedenceSame(op) == op.Precedence

\* The precedence at which parseExpression parses the right operand of op.
rightPrecedence(op) ==
    IF op.Associativity = "Left" THEN op.Precedence + 1 ELSE op.Precedence

\* The same condition with the comparison of the operator inverted.
mixedWithCoalesceInverted(prevOperator, opToken) ==
    prevOperator = "??" /\ opToken.value = "??" /\ ~IsV(opToken, "Bracket", "(")

\* The condition under which parseExpression refuses an operator that follows
\* a nil-coalesce.
mixedWithCoalesce(prevOperator, opToken) ==
    prevOperator = "??" /\ opToken.value # "??" /\ ~IsV(opToken, "Bracket", "(")

\* The condition under which parseCall emits a Builtin node for a name that
\* is not a predicate.
callIsBuiltin(p, token) ==
    InBuiltinIndex(token) /\ token.value \notin p.config.Disabled

\* The same condition in parsePipe.
pipeIsBuiltin(p, identifier) == InBuiltinIndex(identifier)

(***************************************************************************)
(* The parse methods call each other recursively.  The call stack is part  *)
(* of the state: a frame holds the method's name (fn), the point at which  *)
(* it resumes when its callee returns (pc) and its parameters and local    *)
(* variables, with Go's zero values until they are assigned.  A method is  *)
(* an operator from the parser p, the stack s (its own frame last) and the *)
(* value its callee returned, to the parser, stack and returned value      *)
(* after it ran up to its next call or to its return.                      *)
(***************************************************************************)
NoToken == [kind |-> "", value |-> "", loc |-> NoLoc]

Outcome(p, s, result) == [p |-> p, stack |-> s, result |-> result]

\* The method, in frame f, calls callee.
Call(p, s, f, callee) == Outcome(p, Append(Front(s), f) \o <<callee>>, NoNode)

\* The method returns value to its caller.
ReturnValue(p, s, value) == Outcome(p, Front(s), value)

\* The method returns what callee returns: `return p.callee(...)`.
ReturnCall(p, s, callee) == Outcome(p, Append(Front(s), callee), NoNode)

\* The method goes on in frame f.
Continue(p, s, f) == Outcome(p, Append(Front(s), f), NoNode)

\* The frames of the calls.
callParseExpression(precedence) ==
    [fn |-> "parseExpression", pc |-> "start", precedence |-> precedence,
     nodeLeft |-> NoNode, prevOperator |-> "", opToken |-> NoToken,
     negate |-> FALSE, notToken |-> NoToken]

callParseVariableDeclaration ==
    [fn |-> "parseVariableDeclaration", pc |-> "start",
     variableName |-> NoToken, value |-> NoNode]

callParseConditional(node) ==
    [fn |-> "parseConditional", pc |-> "start", node |-> node, expr1 |-> NoNode]

callParsePrimary == [fn |-> "parsePrimary", pc |-> "start", token |-> NoToken]

callParseSecondary == [fn |-> "parseSecondary", pc |-> "start", token |-> NoToken]

callParseCall(token) ==
    [fn |-> "parseCall", pc |-> "start", token |-> token, arguments |-> <<>>]

callParseClosure ==
    [fn |-> "parseClosure", pc |-> "start", startToken |-> NoToken,
     expectClosingBracket |-> FALSE]

callParseArrayExpression(token) ==
    [fn |-> "parseArrayExpression", pc |-> "start", token |-> token, nodes |-> <<>>]

callParseMapExpression(token) ==
    [fn |-> "parseMapExpression", pc |-> "start", token |-> token, nodes |-> <<>>,
     key |-> NoNode]

callParsePostfixExpression(node) ==
    [fn |-> "parsePostfixExpression", pc |-> "start", node |-> node,
     postfixToken |-> NoToken, propertyToken |-> NoToken, memberNode |-> NoNode,
     from |-> NoNode]

callParsePipe(node) ==
    [fn |-> "parsePipe", pc |-> "start", node |-> node, identifier |-> NoToken,
     arguments |-> <<>>]

callParseArguments == [fn |-> "parseArguments", pc |-> "start", nodes |-> <<>>]

\* parseExpression after its loop.
parseExpressionEnd(p, s, f) ==
    IF f.precedence = 0
    THEN ReturnCall(p, s, callParseConditional(f.nodeLeft))
    ELSE ReturnValue(p, s, f.nodeLeft)

\* parseExpression at a binary operator of sufficient precedence, after
\* p.next().
parseExpressionOperator(p, s, f) ==
    IF f.opToken.value = "|"
    THEN Call(p, s, [f EXCEPT !.pc = "pipe"], callParsePipe(f.nodeLeft))
    ELSE IF mixedWithCoalesce(f.prevOperator, f.opToken)
    THEN parseExpressionEnd(
             errorAt(p, f.opToken,
                 <<"Operator and coalesce expressions (??) cannot be mixed. Wrap either by parentheses.",
                   f.opToken.value>>),
             s, f)
    ELSE Call(p, s, [f EXCEPT !.pc = "right"],
              callParseExpression(rightPrecedence(Binary[f.opToken.value])))

\* One test of the condition of parseExpression's loop and, if it holds, the
\* iteration up to its call.
parseExpressionLoop(p, s, f) ==
    IF ~(Is(f.opToken, "Operator") /\ p.err = NoErr)
    THEN parseExpressionEnd(p, s, f)
    ELSE
    LET negate == IsV(f.opToken, "Operator", "not")
        p1     == IF negate THEN next(p) ELSE p
        g      == [f EXCEPT !.negate = negate,
                            !.notToken = IF negate THEN p1.current ELSE NoToken,
                            !.opToken = IF negate THEN p1.current ELSE @]
    IN  IF InBinary(g.opToken) /\ Binary[g.opToken.value].Precedence >= f.precedence
        THEN parseExpressionOperator(next(p1), s, g)
        ELSE parseExpressionEnd(p1, s, g)

\* func (p *parser) parseExpression(precedence int)
parseExpression(p, s, result) ==
    LET f == Last(s)
    IN  CASE f.pc = "start" ->
               IF f.precedence = 0 /\ IsV(p.current, "Operator", "let")
               THEN ReturnCall(p, s, callParseVariableDeclaration)
               ELSE Call(p, s, [f EXCEPT !.pc = "primary"], callParsePrimary)
          [] f.pc = "primary" ->
               parseExpressionLoop(p, s,
                   [f EXCEPT !.nodeLeft = result, !.opToken = p.current])
          [] f.pc = "pipe" ->
               parseExpressionLoop(p, s,
                   [f EXCEPT !.nodeLeft = result,
                             !.prevOperator = f.opToken.value,
                             !.opToken = p.current])
          [] f.pc = "right" ->
               LET bin == BinaryNode(f.opToken.value, f.nodeLeft, result,
                                     f.opToken.loc)
               IN  parseExpressionLoop(p, s,
                       [f EXCEPT !.nodeLeft = IF f.negate
                                              THEN UnaryNode("not", bin, f.notToken.loc)
                                              ELSE bin,
                                 !.prevOperator = f.opToken.value,
                                 !.opToken = p.current])

\* func (p *parser) parseVariableDeclaration
parseVariableDeclaration(p, s, result) ==
    LET f == Last(s)
    IN  CASE f.pc = "start" ->
               LET p1 == expectV(p, "Operator", "let")
               IN  Call(expectV(expect(p1, "Identifier"), "Operator", "="), s,
                        [f EXCEPT !.pc = "value", !.variableName = p1.current],
                        callParseExpression(0))
          [] f.pc = "value" ->
               Call(expectV(p, "Operator", ";"), s,
                    [f EXCEPT !.pc = "node", !.value = result],
                    callParseExpression(0))
          [] f.pc = "node" ->
               ReturnValue(p, s,
                   VariableDeclaratorNode(f.variableName.value, f.value, result,
                                          f.variableName.loc))

\* One test of the condition of parseConditional's loop and, if it holds, the
\* iteration up to its call.
parseConditionalLoop(p, s, f) ==
    IF ~(IsV(p.current, "Operator", "?") /\ p.err = NoErr)
    THEN ReturnValue(p, s, f.node)
    ELSE LET p1 == next(p)
         IN  IF ~IsV(p1.current, "Operator", ":")
             THEN Call(p1, s, [f EXCEPT !.pc = "expr1"], callParseExpression(0))
             ELSE Call(next(p1), s, [f EXCEPT !.pc = "expr2", !.expr1 = f.node],
                       callParseExpression(0))

\* func (p *parser) parseConditional
parseConditional(p, s, result) ==
    LET f == Last(s)
    IN  CASE f.pc = "start" -> parseConditionalLoop(p, s, f)
          [] f.pc = "expr1" ->
               Call(expectV(p, "Operator", ":"), s,
                    [f EXCEPT !.pc = "expr2", !.expr1 = result],
                    callParseExpression(0))
          [] f.pc = "expr2" ->
               parseConditionalLoop(p, s,
                   [f EXCEPT !.node = ConditionalNode(f.node, f.expr1, result, NoLoc)])

\* parsePrimary at a `#` or `.` token.
parsePointer(p, s, token) ==
    LET q == [p EXCEPT !.primaryPointers =
                           Append(@, [depth |-> p.depth, reported |-> Len(p.reports)])]
    IN  IF p.depth > 0
        THEN LET hash  == IsV(token, "Operator", "#")
                 p1    == IF hash THEN next(q) ELSE q
                 named == hash /\ Is(p1.current, "Identifier")
                 p2    == IF named THEN next(p1) ELSE p1
             IN  ReturnCall([p2 EXCEPT !.pointerDepths = @ \cup {p2.depth}], s,
                     callParsePostfixExpression(
                         PointerNode(IF named THEN p1.current.value ELSE "",
                                     token.loc)))
        ELSE ReturnCall(error(q, <<"cannot use pointer accessor outside closure">>),
                        s, callParseSecondary)

\* func (p *parser) parsePrimary
parsePrimary(p, s, result) ==
    LET f     == Last(s)
        token == p.current
    IN  CASE f.pc = "start" ->
               IF Is(token, "Operator") /\ InUnary(token)
               THEN Call(next(p), s, [f EXCEPT !.pc = "unary", !.token = token],
                         callParseExpression(Unary[token.value].Precedence))
               ELSE IF IsV(token, "Bracket", "(")
               THEN Call(next(p), s, [f EXCEPT !.pc = "paren", !.token = token],
                         callParseExpression(0))
               ELSE IF IsV(token, "Operator", "#") \/ IsV(token, "Operator", ".")
               THEN parsePointer(p, s, token)
               ELSE ReturnCall(p, s, callParseSecondary)
          [] f.pc = "unary" ->
               ReturnCall(p, s,
                   callParsePostfixExpression(
                       UnaryNode(f.token.value, result, f.token.loc)))
          [] f.pc = "paren" ->
               ReturnCall(expectV(p, "Bracket", ")"), s,
                          callParsePostfixExpression(result))

\* parseSecondary at a Number token, after p.next().
parseNumber(p, s, token) ==
    LET value == StripUnderscores(token.value)
    IN  IF Contains(value, "x")
        THEN LET n  == ParseInt(value, 0)
                 p2 == IF n.err # "nil"
                       THEN error(p, <<"invalid hex literal", n.err>>) ELSE p
             IN  IF IntGreater(n.number, MaxInt)
                 THEN ReturnValue(error(p2, <<"integer literal is too large">>), s,
                                  NoNode)
                 ELSE ReturnValue(p2, s, IntegerNode(n.number, token.loc))
        ELSE IF ContainsAny(value, {".", "e", "E"})
        THEN LET n == ParseFloat(value)
             IN  ReturnValue(IF n.err # "nil"
                             THEN error(p, <<"invalid float literal", n.err>>)
                             ELSE p,
                             s, FloatNode(n.number, token.loc))
        ELSE LET n  == ParseInt(value, 10)
                 p2 == IF n.err # "nil"
                       THEN error(p, <<"invalid integer literal", n.err>>) ELSE p
             IN  IF IntGreater(n.number, MaxInt)
                 THEN ReturnValue(error(p2, <<"integer literal is too large">>), s,
                                  NoNode)
                 ELSE ReturnValue(p2, s, IntegerNode(n.number, token.loc))

\* func (p *parser) parseSecondary
parseSecondary(p, s, result) ==
    LET f     == Last(s)
        token == p.current
    IN  CASE f.pc = "postfix" ->
               ReturnCall(p, s, callParsePostfixExpression(result))
          [] f.pc = "start" /\ token.kind = "Identifier" ->
               IF token.value = "true"
               THEN ReturnValue(next(p), s, BoolNode(TRUE, token.loc))
               ELSE IF token.value = "false"
               THEN ReturnValue(next(p), s, BoolNode(FALSE, token.loc))
               ELSE IF token.value = "nil"
               THEN ReturnValue(next(p), s, NilNode(token.loc))
               ELSE Call(next(p), s, [f EXCEPT !.pc = "postfix", !.token = token],
                         callParseCall(token))
          [] f.pc = "start" /\ token.kind = "Number" ->
               parseNumber(next(p), s, token)
          [] f.pc = "start" /\ token.kind = "String" ->
               ReturnValue(next(p), s, StringNode(token.value, token.loc))
          [] f.pc = "start" /\ token.kind \notin {"Identifier", "Number", "String"} ->
               IF IsV(token, "Bracket", "[")
               THEN Call(p, s, [f EXCEPT !.pc = "postfix", !.token = token],
                         callParseArrayExpression(token))
               ELSE IF IsV(token, "Bracket", "{")
               THEN Call(p, s, [f EXCEPT !.pc = "postfix", !.token = token],
                         callParseMapExpression(token))
               ELSE ReturnCall(error(p, UnexpectedToken(token)), s,
                               callParsePostfixExpression(NoNode))

\* parseCall of a predicate after the arguments its arity asks for.
parseCallReduce(p, s, f) ==
    IF f.token.value = "reduce"
    THEN Call(p, s, [f EXCEPT !.pc = "reduce0"], callParseExpression(0))
    ELSE ReturnValue(expectV(p, "Bracket", ")"), s,
                     BuiltinNode(f.token.value, f.arguments, f.token.loc))

\* func (p *parser) parseCall
parseCall(p, s, result) ==
    LET f == Last(s)
    IN  CASE f.pc = "start" ->
               IF ~IsV(p.current, "Bracket", "(")
               THEN ReturnValue(p, s, IdentifierNode(f.token.value, f.token.loc))
               ELSE IF InPredicates(f.token)
               THEN LET p1 == expectV(p, "Bracket", "(")
                    IN  IF predicates[f.token.value] = 1
                        THEN Call(p1, s, [f EXCEPT !.pc = "arity1"],
                                  callParseExpression(0))
                        ELSE IF predicates[f.token.value] = 2
                        THEN Call(p1, s, [f EXCEPT !.pc = "arity2"],
                                  callParseExpression(0))
                        ELSE parseCallReduce(p1, s, f)
               ELSE IF callIsBuiltin(p, f.token)
               THEN Call(p, s, [f EXCEPT !.pc = "builtin"], callParseArguments)
               ELSE Call(p, s, [f EXCEPT !.pc = "call"], callParseArguments)
          [] f.pc = "arity1" ->
               parseCallReduce(p, s, [f EXCEPT !.arguments = <<result>>])
          [] f.pc = "arity2" ->
               Call(expectV(p, "Operator", ","), s,
                    [f EXCEPT !.pc = "closure", !.arguments = <<result, NoNode>>],
                    callParseClosure)
          [] f.pc = "closure" ->
               parseCallReduce(p, s, [f EXCEPT !.arguments[2] = result])
          [] f.pc = "reduce0" ->
               Call(expectV(p, "Operator", ","), s,
                    [f EXCEPT !.pc = "reduce1", !.arguments = <<result, NoNode>>],
                    callParseClosure)
          [] f.pc = "reduce1" ->
               IF IsV(p.current, "Operator", ",")
               THEN Call(next(p), s,
                         [f EXCEPT !.pc = "reduce2", !.arguments[2] = result],
                         callParseExpression(0))
               ELSE ReturnValue(expectV(p, "Bracket", ")"), s,
                        BuiltinNode(f.token.value,
                                    <<f.arguments[1], result>>, f.token.loc))
          [] f.pc = "reduce2" ->
               ReturnValue(expectV(p, "Bracket", ")"), s,
                   BuiltinNode(f.token.value, Append(f.arguments, result),
                               f.token.loc))
          [] f.pc = "builtin" ->
               ReturnValue(p, s, BuiltinNode(f.token.value, result, f.token.loc))
          [] f.pc = "call" ->
               ReturnValue(p, s,
                   CallNode(IdentifierNode(f.token.value, f.token.loc), result,
                            f.token.loc))

\* func (p *parser) parseClosure
parseClosure(p, s, result) ==
    LET f == Last(s)
    IN  CASE f.pc = "start" ->
               LET expectClosingBracket == IsV(p.current, "Bracket", "{")
               IN  Call(incDepth(IF expectClosingBracket THEN next(p) ELSE p), s,
                        [f EXCEPT !.pc = "node", !.startToken = p.current,
                                  !.expectClosingBracket = expectClosingBracket],
                        callParseExpression(0))
          [] f.pc = "node" ->
               ReturnValue(IF f.expectClosingBracket
                           THEN expectV(decDepth(p), "Bracket", "}")
                           ELSE decDepth(p),
                           s, ClosureNode(result, f.startToken.loc))

\* parseArrayExpression from its label end.
parseArrayEnd(p, s, f) ==
    ReturnValue(expectV(p, "Bracket", "]"), s, ArrayNode(f.nodes, f.token.loc))

\* One test of the condition of parseArrayExpression's loop and, if it holds,
\* the iteration up to its call.
parseArrayLoop(p, s, f) ==
    IF ~(~IsV(p.current, "Bracket", "]") /\ p.err = NoErr)
    THEN parseArrayEnd(p, s, f)
    ELSE LET p1 == IF Len(f.nodes) > 0 THEN expectV(p, "Operator", ",") ELSE p
         IN  IF Len(f.nodes) > 0 /\ IsV(p1.current, "Bracket", "]")
             THEN parseArrayEnd(p1, s, f)
             ELSE Call(p1, s, [f EXCEPT !.pc = "node"], callParseExpression(0))

\* func (p *parser) parseArrayExpression
parseArrayExpression(p, s, result) ==
    LET f == Last(s)
    IN  CASE f.pc = "start" -> parseArrayLoop(expectV(p, "Bracket", "["), s, f)
          [] f.pc = "node" ->
               parseArrayLoop(p, s, [f EXCEPT !.nodes = Append(@, result)])

\* parseMapExpression from its label end.
parseMapEnd(p, s, f) ==
    ReturnValue(expectV(p, "Bracket", "}"), s, MapNode(f.nodes, f.token.loc))

\* parseMapExpression at a key.
parseMapKey(p, s, f) ==
    IF Is(p.current, "Number") \/ Is(p.current, "String")
       \/ Is(p.current, "Identifier")
    THEN Call(expectV(next(p), "Operator", ":"), s,
              [f EXCEPT !.pc = "value",
                        !.key = StringNode(p.current.value, f.token.loc)],
              callParseExpression(0))
    ELSE IF IsV(p.current, "Bracket", "(")
    THEN Call(p, s, [f EXCEPT !.pc = "key", !.key = NoNode], callParseExpression(0))
    ELSE Call(expectV(error(p, <<"a map key must be a quoted string, a number, a identifier, or an expression enclosed in parentheses",
                                 TokenString(p.current)>>),
                      "Operator", ":"),
              s, [f EXCEPT !.pc = "value", !.key = NoNode], callParseExpression(0))

\* One test of the condition of parseMapExpression's loop and, if it holds,
\* the iteration up to its call.
parseMapLoop(p, s, f) ==
    IF ~(~IsV(p.current, "Bracket", "}") /\ p.err = NoErr)
    THEN parseMapEnd(p, s, f)
    ELSE LET p1 == IF Len(f.nodes) > 0 THEN expectV(p, "Operator", ",") ELSE p
         IN  IF Len(f.nodes) > 0 /\ IsV(p1.current, "Bracket", "}")
             THEN parseMapEnd(p1, s, f)
             ELSE IF Len(f.nodes) > 0 /\ IsV(p1.current, "Operator", ",")
             THEN parseMapKey(error(p1, UnexpectedToken(p1.current)), s, f)
             ELSE parseMapKey(p1, s, f)

\* func (p *parser) parseMapExpression
parseMapExpression(p, s, result) ==
    LET f == Last(s)
    IN  CASE f.pc = "start" -> parseMapLoop(expectV(p, "Bracket", "{"), s, f)
          [] f.pc = "key" ->
               Call(expectV(p, "Operator", ":"), s,
                    [f EXCEPT !.pc = "value", !.key = result],
                    callParseExpression(0))
          [] f.pc = "value" ->
               parseMapLoop(p, s,
                   [f EXCEPT !.nodes = Append(@, PairNode(f.key, result, f.token.loc))])

\* The end of an iteration of parsePostfixExpression's loop.
parsePostfixNext(p, s, f, node) ==
    Continue(p, s, [f EXCEPT !.pc = "loop", !.node = node,
                             !.postfixToken = p.current])

\* The Chain node parsePostfixExpression wraps a member or a method call in.
chained(f, node) ==
    IF f.node.kind = "Chain" \/ f.postfixToken.value = "?."
    THEN ChainNode(node, NoLoc) ELSE node

\* parsePostfixExpression at a `.` or `?.` token.
parsePostfixMember(p, s, f) ==
    LET p1            == next(p)
        propertyToken == p1.current
        p2            == next(p1)
        p3 == IF propertyToken.kind # "Identifier"
                 /\ (propertyToken.kind # "Operator"
                     \/ ~IsValidIdentifier(propertyToken.value))
              THEN error(p2, <<"expected name">>) ELSE p2
        memberNode == MemberNode(IF f.node.kind = "Chain" THEN f.node.node
                                 ELSE f.node,
                                 StringNode(propertyToken.value, propertyToken.loc),
                                 f.postfixToken.value = "?.", propertyToken.loc)
    IN  IF IsV(p3.current, "Bracket", "(")
        THEN Call(p3, s, [f EXCEPT !.pc = "arguments",
                                   !.propertyToken = propertyToken,
                                   !.memberNode = memberNode],
                  callParseArguments)
        ELSE parsePostfixNext(p3, s, f, chained(f, memberNode))

\* parsePostfixExpression after the `:` of a slice, with its lower bound.
parsePostfixSlice(p, s, f, from) ==
    IF ~IsV(p.current, "Bracket", "]")
    THEN Call(p, s, [f EXCEPT !.pc = "to", !.from = from], callParseExpression(0))
    ELSE parsePostfixNext(expectV(p, "Bracket", "]"), s, f,
             SliceNode(f.node, from, NoNode, f.postfixToken.loc))

\* One test of the condition of parsePostfixExpression's loop and, if it
\* holds, the iteration up to its call or to its end.
parsePostfixLoop(p, s, f) ==
    IF ~((Is(f.postfixToken, "Operator") \/ Is(f.postfixToken, "Bracket"))
         /\ p.err = NoErr)
    THEN ReturnValue(p, s, f.node)
    ELSE IF f.postfixToken.value = "." \/ f.postfixToken.value = "?."
    THEN parsePostfixMember(p, s, f)
    ELSE IF f.postfixToken.value = "["
    THEN LET p1 == next(p)
         IN  IF IsV(p1.current, "Operator", ":")
             THEN parsePostfixSlice(next(p1), s, f, NoNode)
             ELSE Call(p1, s, [f EXCEPT !.pc = "from"], callParseExpression(0))
    ELSE ReturnValue(p, s, f.node)

\* func (p *parser) parsePostfixExpression
parsePostfixExpression(p, s, result) ==
    LET f == Last(s)
    IN  CASE f.pc = "start" ->
               parsePostfixLoop(p, s, [f EXCEPT !.postfixToken = p.current])
          [] f.pc = "loop" -> parsePostfixLoop(p, s, f)
          [] f.pc = "arguments" ->
               parsePostfixNext(p, s, f,
                   chained(f, CallNode(f.memberNode, result, f.propertyToken.loc)))
          [] f.pc = "from" ->
               IF IsV(p.current, "Operator", ":")
               THEN parsePostfixSlice(next(p), s, f, result)
               ELSE parsePostfixNext(expectV(p, "Bracket", "]"), s, f,
                        MemberNode(f.node, result, FALSE, f.postfixToken.loc))
          [] f.pc = "to" ->
               parsePostfixNext(expectV(p, "Bracket", "]"), s, f,
                   SliceNode(f.node, f.from, result, f.postfixToken.loc))

\* parsePipe into a predicate after the closure its arity asks for.
parsePipeReduce(p, s, f) ==
    IF f.identifier.value = "reduce"
    THEN Call(p, s, [f EXCEPT !.pc = "reduce1"], callParseClosure)
    ELSE ReturnValue(expectV(p, "Bracket", ")"), s,
             BuiltinNode(f.identifier.value, f.arguments, f.identifier.loc))

\* func (p *parser) parsePipe
parsePipe(p, s, result) ==
    LET f == Last(s)
    IN  CASE f.pc = "start" ->
               LET identifier == p.current
                   p1 == expect(p, "Identifier")
                   g  == [f EXCEPT !.identifier = identifier,
                                   !.arguments = <<f.node>>]
               IN  IF InPredicates(identifier)
                   THEN IF predicates[identifier.value] = 2
                        THEN Call(expectV(p1, "Bracket", "("), s,
                                  [g EXCEPT !.pc = "closure"], callParseClosure)
                        ELSE parsePipeReduce(expectV(p1, "Bracket", "("), s, g)
                   ELSE IF pipeIsBuiltin(p1, identifier)
                   THEN Call(p1, s, [g EXCEPT !.pc = "builtin"], callParseArguments)
                   ELSE Call(p1, s, [g EXCEPT !.pc = "call"], callParseArguments)
          [] f.pc = "closure" ->
               parsePipeReduce(p, s, [f EXCEPT !.arguments = Append(@, result)])
          [] f.pc = "reduce1" ->
               IF IsV(p.current, "Operator", ",")
               THEN Call(next(p), s,
                         [f EXCEPT !.pc = "reduce2",
                                   !.arguments = Append(@, result)],
                         callParseExpression(0))
               ELSE ReturnValue(expectV(p, "Bracket", ")"), s,
                        BuiltinNode(f.identifier.value, Append(f.arguments, result),
                                    f.identifier.loc))
          [] f.pc = "reduce2" ->
               ReturnValue(expectV(p, "Bracket", ")"), s,
                   BuiltinNode(f.identifier.value, Append(f.arguments, result),
                               f.identifier.loc))
          [] f.pc = "builtin" ->
               ReturnValue(p, s,
                   BuiltinNode(f.identifier.value, f.arguments \o result,
                               f.identifier.loc))
          [] f.pc = "call" ->
               ReturnValue(p, s,
                   CallNode(IdentifierNode(f.identifier.value, f.identifier.loc),
                            f.arguments \o result, f.identifier.loc))

\* One test of the condition of parseArguments's loop and, if it holds, the
\* iteration up to its call.
parseArgumentsLoop(p, s, f) ==
    IF ~(~IsV(p.current, "Bracket", ")") /\ p.err = NoErr)
    THEN ReturnValue(expectV(p, "Bracket", ")"), s, f.nodes)
    ELSE Call(IF Len(f.nodes) > 0 THEN expectV(p, "Operator", ",") ELSE p, s,
              [f EXCEPT !.pc = "node"], callParseExpression(0))

\* func (p *parser) parseArguments
parseArguments(p, s, result) ==
    LET f == Last(s)
    IN  CASE f.pc = "start" -> parseArgumentsLoop(expectV(p, "Bracket", "("), s, f)
          [] f.pc = "node" ->
               parseArgumentsLoop(p, s, [f EXCEPT !.nodes = Append(@, result)])

(***************************************************************************)
(* Lexemes: the inputs of the model are written as sequences of these.     *)
(***************************************************************************)
Lx(kind, value) == [kind |-> kind, value |-> value]

Id(name) == Lx("Identifier", name)

Num(chars) == Lx("Number", chars)

Str(value) == Lx("String", value)

Opr(value) == Lx("Operator", value)

Brk(value) == Lx("Bracket", value)

(***************************************************************************)
(* The optimizer (src/optimizer).                                          *)
(*                                                                         *)
(* A visitor is the record v of its fields (applied, err, fns) with the    *)
(* name of its pass.  Visit returns the node now in the visited slot, the  *)
(* visitor and whether the slot was patched.                               *)
(***************************************************************************)
Visitor(pass, fns) == [pass |-> pass, applied |-> FALSE, err |-> NoErr, fns |-> fns]

\* ast.Patch(node, newNode): the slot takes the new node, which inherits the
\* old node's location when it has none of its own.
Patch(node, newNode) ==
    IF newNode = NoNode THEN newNode
    ELSE IF newNode.loc = NoLoc THEN [newNode EXCEPT !.loc = node.loc] ELSE newNode

Unpatched(node, v) == [node |-> node, v |-> v, patched |-> FALSE]

\* fold.Visit: patch := func(newNode ast.Node)
patch(node, v, newNode) ==
    [node |-> Patch(node, newNode), v |-> [v EXCEPT !.applied = TRUE], patched |-> TRUE]

\* The static type patchWithType gives a new literal.
typeOf(newNode) ==
    CASE newNode.kind = "Integer" -> "integer"
      [] newNode.kind = "Float"   -> "float"
      [] newNode.kind = "String"  -> "string"

\* fold.Visit: patchWithType := func(newNode ast.Node)
patchWithType(node, v, newNode) ==
    patch(node, v, [newNode EXCEPT !.type = typeOf(newNode)])

\* toInteger, toFloat, toString, toBool: the node is a literal of the kind.
toInteger(n) == n.kind = "Integer"

toFloat(n) == n.kind = "Float"

toString(n) == n.kind = "String"

toBool(n) == n.kind = "Bool"

\* The value a literal node holds, as a Go value of its dynamic type.
GoInt(i) == [vk |-> "int", int |-> i]

GoFloat(f) == [vk |-> "float64", float |-> f]

GoString(s) == [vk |-> "string", str |-> s]

GoBool(b) == [vk |-> "bool", bool |-> b]

GoNil == [vk |-> "nil"]

GoSlice(vs) == [vk |-> "[]any", elems |-> vs]

ValueOf(n) ==
    CASE n.kind = "Integer"  -> GoInt(n.ival)
      [] n.kind = "Float"    -> GoFloat(n.fval)
      [] n.kind = "String"   -> GoString(n.sval)
      [] n.kind = "Bool"     -> GoBool(n.bval)
      [] n.kind = "Nil"      -> GoNil
      [] n.kind = "Constant" -> n.cval

\* fold.Visit, case *ast.UnaryNode
foldUnary(node, v) ==
    LET n == node.node
    IN  CASE node.op = "-" /\ toInteger(n) ->
               patchWithType(node, v, IntegerNode(IntNeg(n.ival), NoLoc))
          [] node.op = "-" /\ toFloat(n) ->
               patchWithType(node, v, FloatNode(FloatNeg(n.fval), NoLoc))
          [] node.op = "+" /\ toInteger(n) ->
               patchWithType(node, v, IntegerNode(n.ival, NoLoc))
          [] node.op = "+" /\ toFloat(n) ->
               patchWithType(node, v, FloatNode(n.fval, NoLoc))
          [] node.op \in {"!", "not"} /\ toBool(n) ->
               patch(node, v, BoolNode(~n.bval, NoLoc))
          [] OTHER -> Unpatched(node, v)

\* float64(a.Value) for an integer literal, a.Value for a float literal.
asFloat(n) == IF toInteger(n) THEN FloatOfInt(n.ival) ELSE n.fval

\* fold.Visit, case *ast.BinaryNode, the operators + - * / ** ^
foldArithmetic(node, v) ==
    LET a       == node.left
        b       == node.right
        intInt  == toInteger(a) /\ toInteger(b)
        numeric == (toInteger(a) \/ toFloat(a)) /\ (toInteger(b) \/ toFloat(b))
        float   == FloatNode(FloatOp(IF node.op = "^" THEN "**" ELSE node.op,
                                     asFloat(a), asFloat(b)), NoLoc)
    IN  CASE node.op = "+" /\ intInt ->
               patchWithType(node, v, IntegerNode(IntAdd(a.ival, b.ival), NoLoc))
          [] node.op = "-" /\ intInt ->
               patchWithType(node, v, IntegerNode(IntSub(a.ival, b.ival), NoLoc))
          [] node.op = "*" /\ intInt ->
               patchWithType(node, v, IntegerNode(IntMul(a.ival, b.ival), NoLoc))
          [] node.op = "+" /\ toString(a) /\ toString(b) ->
               patch(node, v, StringNode(a.sval \o b.sval, NoLoc))
          [] numeric /\ (~intInt \/ node.op \in {"/", "**", "^"}) ->
               patchWithType(node, v, float)
          [] OTHER -> Unpatched(node, v)

\* fold.Visit, case *ast.BinaryNode, the operator %
foldModulo(node, v) ==
    IF toInteger(node.left) /\ toInteger(node.right)
    THEN IF node.right.ival = FromInt(0)
         THEN [node |-> node,
               v |-> [v EXCEPT !.err = FileError(node.loc, <<"integer divide by zero">>)],
               patched |-> FALSE]
         ELSE patch(node, v, IntegerNode(IntRem(node.left.ival, node.right.ival), NoLoc))
    ELSE Unpatched(node, v)

\* fold.Visit, case *ast.BinaryNode, the operators and && or ||
foldLogical(node, v) ==
    LET a == node.left
        b == node.right
    IN  IF node.op \in {"and", "&&"}
        THEN IF toBool(a) /\ a.bval THEN patch(node, v, b)
             ELSE IF toBool(b) /\ b.bval THEN patch(node, v, a)
             ELSE IF (toBool(a) /\ ~a.bval) \/ (toBool(b) /\ ~b.bval)
             THEN patch(node, v, BoolNode(FALSE, NoLoc))
             ELSE Unpatched(node, v)
        ELSE IF toBool(a) /\ ~a.bval THEN patch(node, v, b)
             ELSE IF toBool(b) /\ ~b.bval THEN patch(node, v, a)
             ELSE IF (toBool(a) /\ a.bval) \/ (toBool(b) /\ b.bval)
             THEN patch(node, v, BoolNode(TRUE, NoLoc))
             ELSE Unpatched(node, v)

\* fold.Visit, case *ast.BinaryNode, the operator ==
foldEqual(node, v) ==
    LET a == node.left
        b == node.right
    IN  CASE toInteger(a) /\ toInteger(b) ->
               patch(node, v, BoolNode(a.ival = b.ival, NoLoc))
          [] toString(a) /\ toString(b) ->
               patch(node, v, BoolNode(a.sval = b.sval, NoLoc))
          [] toBool(a) /\ toBool(b) ->
               patch(node, v, BoolNode(a.bval = b.bval, NoLoc))
          [] OTHER -> Unpatched(node, v)

\* fold.Visit, case *ast.ArrayNode
foldArray(node, v) ==
    IF /\ Len(node.nodes) > 0
       /\ \A i \in 1..Len(node.nodes) :
             node.nodes[i].kind \in {"Integer", "Float", "String", "Bool"}
    THEN patch(node, v,
               ConstantNode(GoSlice([i \in 1..Len(node.nodes) |-> ValueOf(node.nodes[i])]),
                            NoLoc))
    ELSE Unpatched(node, v)

\* The predicate of the fused filter: base's predicate && n's predicate.
fusedPredicateSwapped(base, n) ==
    BinaryNode("&&", n.args[2], base.args[2], NoLoc)

fusedPredicate(base, n) == BinaryNode("&&", base.args[2], n.args[2], NoLoc)

\* The fusion of nested filters with a conjunct more.
foldBuiltinGrows(node, v) ==
    IF node.name = "filter" /\ Len(node.args) = 2
       /\ node.args[1].kind = "Builtin" /\ node.args[1].name = "filter"
    THEN LET base == node.args[1]
         IN  patch(node, v,
                   BuiltinNode("filter",
                               <<base.args[1],
                                 BinaryNode("&&", fusedPredicate(base, node),
                                            node.args[2], NoLoc)>>,
                               NoLoc))
    ELSE Unpatched(node, v)

\* fold.Visit, case *ast.BuiltinNode
foldBuiltin(node, v) ==
    IF node.name = "filter" /\ Len(node.args) = 2
       /\ node.args[1].kind = "Builtin" /\ node.args[1].name = "filter"
    THEN LET base == node.args[1]
         IN  patch(node, v,
                   BuiltinNode("filter", <<base.args[1], fusedPredicate(base, node)>>,
                               NoLoc))
    ELSE Unpatched(node, v)

\* func (fold *fold) Visit(node *ast.Node)
foldVisit(node, v) ==
    CASE node.kind = "Unary" -> foldUnary(node, v)
      [] node.kind = "Binary" /\ node.op \in {"+", "-", "*", "/", "**", "^"} ->
           foldArithmetic(node, v)
      [] node.kind = "Binary" /\ node.op = "%" -> foldModulo(node, v)
      [] node.kind = "Binary" /\ node.op \in {"and", "&&", "or", "||"} ->
           foldLogical(node, v)
      [] node.kind = "Binary" /\ node.op = "==" -> foldEqual(node, v)
      [] node.kind = "Array" -> foldArray(node, v)
      [] node.kind = "Builtin" -> foldBuiltin(node, v)
      [] OTHER -> Unpatched(node, v)

(***************************************************************************)
(* The constExpr pass (src/optimizer/const_expr.go).  The pure functions a *)
(* configuration can register are add2(x int) int, which returns x + 2;    *)
(* div(a, b int) int, which returns a / b; and fail(x any) (any, error),   *)
(* which returns an error.                                                 *)
(***************************************************************************)
Returned(value) == [panic |-> <<>>, value |-> value, err |-> <<>>]

Failed(err) == [panic |-> <<>>, value |-> GoNil, err |-> err]

Panicked(msg) == [panic |-> msg, value |-> GoNil, err |-> <<>>]

\* fn.Call(in): reflect panics on a call that does not fit the signature.
CallFn(name, in) ==
    CASE name = "add2" ->
           IF Len(in) # 1 THEN Panicked(<<"reflect: Call with wrong argument count">>)
           ELSE IF in[1].vk # "int" THEN Panicked(<<"reflect: Call using wrong type">>)
           ELSE Returned(GoInt(IntAdd(in[1].int, FromInt(2))))
      [] name = "div" ->
           IF Len(in) # 2 THEN Panicked(<<"reflect: Call with wrong argument count">>)
           ELSE IF in[1].vk # "int" \/ in[2].vk # "int"
           THEN Panicked(<<"reflect: Call using wrong type">>)
           ELSE IF in[2].int = FromInt(0)
           THEN Panicked(<<"runtime error:", "integer divide by zero">>)
           ELSE Returned(GoInt(FromInt(ToInt(in[1].int) \div ToInt(in[2].int))))
      [] name = "fail" ->
           IF Len(in) # 1 THEN Panicked(<<"reflect: Call with wrong argument count">>)
           ELSE Failed(<<"fail">>)

\* strings.Replace(msg, "runtime error:", "compile error:", 1)
ReplaceRuntimeError(msg) ==
    IF msg # <<>> /\ Head(msg) = "runtime error:"
    THEN <<"compile error:">> \o Tail(msg) ELSE msg

\* An error that is not a *file.Error has no location.
PlainError(msg) == [Location |-> NoLoc, Message |-> msg]

\* func (c *constExpr) Visit(node *ast.Node)
constExprVisit(node, v) ==
    IF /\ node.kind = "Call"
       /\ node.callee.kind = "Identifier"
       /\ node.callee.name \in v.fns
       /\ \A i \in 1..Len(node.args) :
             node.args[i].kind \in
                 {"Nil", "Integer", "Float", "Bool", "String", "Constant"}
    THEN LET in  == [i \in 1..Len(node.args) |-> ValueOf(node.args[i])]
             out == CallFn(node.callee.name, in)
         IN  IF out.panic # <<>>
             THEN [node |-> node,
                   v |-> [v EXCEPT !.err = FileError(node.loc,
                                                     ReplaceRuntimeError(out.panic))],
                   patched |-> FALSE]
             ELSE IF out.err # <<>>
             THEN [node |-> node, v |-> [v EXCEPT !.err = PlainError(out.err)],
                   patched |-> FALSE]
             ELSE patch(node, v, ConstantNode(out.value, NoLoc))
    ELSE Unpatched(node, v)

(***************************************************************************)
(* The specialization passes.                                              *)
(***************************************************************************)
AllOfKind(nodes, kind) == \A i \in 1..Len(nodes) : nodes[i].kind = kind

\* inArray: x in [literals]  ->  x in Constant
inArrayVisit(node, v) ==
    IF /\ node.kind = "Binary" /\ node.op = "in"
       /\ node.right.kind = "Array" /\ Len(node.right.nodes) > 0
       /\ (AllOfKind(node.right.nodes, "Integer") \/ AllOfKind(node.right.nodes, "String"))
    THEN patch(node, v,
               BinaryNode("in", node.left,
                   ConstantNode(GoSlice([i \in 1..Len(node.right.nodes) |->
                                            ValueOf(node.right.nodes[i])]),
                                node.right.loc),
                   NoLoc))
    ELSE Unpatched(node, v)

IsRange(n) ==
    n.kind = "Binary" /\ n.op = ".." /\ n.left.kind = "Integer" /\ n.right.kind = "Integer"

\* inRange: x in a..b  ->  x >= a and x <= b
inRangeVisit(node, v) ==
    IF node.kind = "Binary" /\ node.op = "in" /\ IsRange(node.right)
    THEN patch(node, v,
               BinaryNode("and",
                   BinaryNode(">=", node.left, node.right.left, NoLoc),
                   BinaryNode("<=", node.left, node.right.right, NoLoc),
                   NoLoc))
    ELSE Unpatched(node, v)

\* constRange: a..b  ->  Constant([a, ..., b])
constRangeVisit(node, v) ==
    IF IsRange(node)
    THEN LET a == ToInt(node.left.ival)
             b == ToInt(node.right.ival)
         IN  patch(node, v,
                   ConstantNode(GoSlice([i \in 1..(b - a + 1) |-> GoInt(FromInt(a + i - 1))]),
                                NoLoc))
    ELSE Unpatched(node, v)

IsFilter(n) == n.kind = "Builtin" /\ n.name = "filter" /\ Len(n.args) = 2

\* filterMap: map(filter(x, p), m)  ->  the fused form
filterMapVisit(node, v) ==
    IF node.kind = "Builtin" /\ node.name = "map" /\ Len(node.args) = 2
       /\ IsFilter(node.args[1])
    THEN patch(node, v,
               BuiltinNode("filterMap", node.args[1].args \o <<node.args[2]>>, NoLoc))
    ELSE Unpatched(node, v)

\* filterLen, filterLast, filterFirst: f(filter(x, p))  ->  the fused form
fuseFilterVisit(node, v, name, fused) ==
    IF node.kind = "Builtin" /\ node.name = name /\ Len(node.args) = 1
       /\ IsFilter(node.args[1])
    THEN patch(node, v, BuiltinNode(fused, node.args[1].args, NoLoc))
    ELSE Unpatched(node, v)

\* v.Visit(node), by the visitor's pass.
Visit(node, v) ==
    CASE v.pass = "inArray"     -> inArrayVisit(node, v)
      [] v.pass = "fold"        -> foldVisit(node, v)
      [] v.pass = "constExpr"   -> constExprVisit(node, v)
      [] v.pass = "inRange"     -> inRangeVisit(node, v)
      [] v.pass = "constRange"  -> constRangeVisit(node, v)
      [] v.pass = "filterMap"   -> filterMapVisit(node, v)
      [] v.pass = "filterLen"   -> fuseFilterVisit(node, v, "len", "filterLen")
      [] v.pass = "filterLast"  -> fuseFilterVisit(node, v, "last", "filterLast")
      [] v.pass = "filterFirst" -> fuseFilterVisit(node, v, "first", "filterFirst")

(***************************************************************************)
(* ast.Walk: the node is visited first; its children are walked, in order, *)
(* unless the visitor replaced the node.                                   *)
(***************************************************************************)
W(node, v) == [node |-> node, v |-> v]

RECURSIVE Walk(_, _)
RECURSIVE WalkNodes(_, _)
RECURSIVE WalkChildren(_, _)

WalkNodes(nodes, v) ==
    IF nodes = <<>> THEN [nodes |-> <<>>, v |-> v]
    ELSE LET h == Walk(Head(nodes), v)
             t == WalkNodes(Tail(nodes), h.v)
         IN  [nodes |-> <<h.node>> \o t.nodes, v |-> t.v]

WalkChildren(n, v) ==
    CASE n.kind \in {"Unary", "Chain", "Closure"} ->
           LET a == Walk(n.node, v) IN W([n EXCEPT !.node = a.node], a.v)
      [] n.kind = "Binary" ->
           LET a == Walk(n.left, v)
               b == Walk(n.right, a.v)
           IN  W([n EXCEPT !.left = a.node, !.right = b.node], b.v)
      [] n.kind = "Member" ->
           LET a == Walk(n.node, v)
               b == Walk(n.property, a.v)
           IN  W([n EXCEPT !.node = a.node, !.property = b.node], b.v)
      [] n.kind = "Slice" ->
           LET a == Walk(n.node, v)
               b == Walk(n.from, a.v)
               c == Walk(n.to, b.v)
           IN  W([n EXCEPT !.node = a.node, !.from = b.node, !.to = c.node], c.v)
      [] n.kind = "Call" ->
           LET a == Walk(n.callee, v)
               b == WalkNodes(n.args, a.v)
           IN  W([n EXCEPT !.callee = a.node, !.args = b.nodes], b.v)
      [] n.kind = "Builtin" ->
           LET a == WalkNodes(n.args, v) IN W([n EXCEPT !.args = a.nodes], a.v)
      [] n.kind = "Array" ->
           LET a == WalkNodes(n.nodes, v) IN W([n EXCEPT !.nodes = a.nodes], a.v)
      [] n.kind = "Map" ->
           LET a == WalkNodes(n.pairs, v) IN W([n EXCEPT !.pairs = a.nodes], a.v)
      [] n.kind = "Pair" ->
           LET a == Walk(n.key, v)
               b == Walk(n.value, a.v)
           IN  W([n EXCEPT !.key = a.node, !.value = b.node], b.v)
      [] n.kind = "Conditional" ->
           LET a == Walk(n.cond, v)
               b == Walk(n.exp1, a.v)
               c == Walk(n.exp2, b.v)
           IN  W([n EXCEPT !.cond = a.node, !.exp1 = b.node, !.exp2 = c.node], c.v)
      [] n.kind = "VariableDeclarator" ->
           LET a == Walk(n.value, v)
               b == Walk(n.expr, a.v)
           IN  W([n EXCEPT !.value = a.node, !.expr = b.node], b.v)
      [] OTHER -> W(n, v)

Walk(node, v) ==
    IF node = NoNode THEN W(node, v)
    ELSE LET r == Visit(node, v)
         IN  IF r.patched THEN W(r.node, r.v) ELSE WalkChildren(r.node, r.v)

(***************************************************************************)
(* Source texts, as the sequences of lexemes the lexer makes of them.      *)
(***************************************************************************)
DigitChar(d) == <<"0", "1", "2", "3", "4", "5", "6", "7", "8", "9",
                  "a", "b", "c", "d", "e", "f">>[d + 1]

\* The decimal numeral of a magnitude.
Numeral(mag) == LET r == SeqReverse(mag) IN [i \in 1..Len(r) |-> DigitChar(r[i])]

Paren(e) == <<Brk("(")>> \o e \o <<Brk(")")>>

\* f(args...), with the arguments separated by commas
RECURSIVE CommaList(_)
CommaList(args) ==
    IF args = <<>> THEN <<>>
    ELSE IF Len(args) = 1 THEN args[1]
    ELSE args[1] \o <<Opr(",")>> \o CommaList(Tail(args))

CallText(f, args) == <<Id(f)>> \o Paren(CommaList(args))

\* x | f(args...)
PipeText(x, f, args) == x \o <<Opr("|")>> \o CallText(f, args)

Case(family, lexemes, config) ==
    [family |-> family, lexemes |-> lexemes, config |-> config]

NoConfig == Config({}, {})

MaxGarbage == 3

MaxDepth == 2

MaxNest == 3

\* a OP1 b OP2 c
OperatorText(op1, op2) == <<Id("a"), Opr(op1), Id("b"), Opr(op2), Id("c")>>

\* (a) OP1 (b) OP2 (c)
OperatorParenText(op1, op2) ==
    Paren(<<Id("a")>>) \o <<Opr(op1)>> \o Paren(<<Id("b")>>) \o <<Opr(op2)>>
      \o Paren(<<Id("c")>>)

OperatorCases ==
    {Case("operators", t, NoConfig) :
        t \in UNION {{OperatorText(op1, op2), OperatorParenText(op1, op2)} :
                        op1 \in DOMAIN Binary, op2 \in DOMAIN Binary}}

\* a ?? b | f(args)
CoalescePipeCases ==
    LET ab == <<Id("a"), Opr("??"), Id("b")>>
    IN  {Case("coalescePipe", t, NoConfig) :
            t \in {PipeText(ab, f, args) :
                      f \in {"f", "len"}, args \in {<<>>, <<<<Id("c")>>>>}}
              \cup {PipeText(ab, "filter", <<<<Opr("#")>>>>)}}

\* (a ?? b) OP c and a ?? (b OP c)
CoalesceParenCases ==
    LET a == <<Id("a")>>
        b == <<Id("b")>>
        c == <<Id("c")>>
    IN  {Case("coalesceParen", t, NoConfig) :
            t \in UNION {{Paren(a \o <<Opr("??")>> \o b) \o <<Opr(op)>> \o c,
                          a \o <<Opr("??")>> \o Paren(b \o <<Opr(op)>> \o c)} :
                            op \in DOMAIN Binary \ {"|"}}}

GarbageAlphabet ==
    {Id("a"), Num(<<"1">>), Opr("+"), Opr("#"), Opr("."), Opr("let"),
     Brk("("), Brk(")"), Brk("["), Brk("{")}

GarbageCases ==
    {Case("garbage", t, NoConfig) :
        t \in UNION {[1..n -> GarbageAlphabet] : n \in 1..MaxGarbage}}

ClosureBodies ==
    {<<Opr("#")>>,
     <<Opr("#"), Opr(">"), Num(<<"1">>)>>,
     <<Opr("."), Id("x")>>,
     <<Opr("#"), Id("x")>>,
     <<Brk("{"), Opr("#"), Brk("}")>>,
     <<Id("b")>>,
     CallText("filter", << <<Opr("#")>>, <<Opr("#"), Opr(">"), Num(<<"1">>)>> >>)}

ClosureCases ==
    LET a == <<Id("a")>>
    IN  {Case("closure", t, NoConfig) :
            t \in {CallText(f, <<a, b>>) : f \in {"filter", "map", "f"}, b \in ClosureBodies}
              \cup {PipeText(a, f, <<b>>) : f \in {"filter", "map"}, b \in ClosureBodies}
              \cup {CallText("filter", <<a, b>>) \o <<Opr("+")>> \o c :
                        b \in ClosureBodies, c \in {<<Opr("#")>>, <<Opr("."), Id("x")>>}}
              \cup {<<Opr("let"), Id("v"), Opr("=")>> \o c \o <<Opr(";"), Id("v")>> :
                        c \in {<<Opr("#")>>, CallText("filter", <<a, <<Opr("#")>> >>)}}}

Pow2_63 == MulAdd(MaxInt64.mag, 1, 1)

DecimalLiterals ==
    {<<"0">>, <<"7">>, <<"4", "2">>, <<"1", "_", "0", "0", "0">>,
     Numeral(<<6>> \o Tail(MaxInt64.mag)),
     Numeral(MaxInt64.mag),
     Numeral(Pow2_63),
     Numeral(MulAdd(Pow2_63, 1, 1)),
     Numeral(MulAdd(Pow2_63, 2, 0)),
     Numeral(MulAdd(MaxInt64.mag, 10, 9))}

HexLiterals ==
    {<<"0", "x">> \o h :
        h \in {<<"0">>, <<"f", "f">>,
               <<"7">> \o [i \in 1..15 |-> "f"],
               <<"7">> \o [i \in 1..14 |-> "f"] \o <<"e">>,
               <<"8">> \o [i \in 1..15 |-> "0"],
               <<"8">> \o [i \in 1..14 |-> "0"] \o <<"1">>,
               [i \in 1..16 |-> "f"],
               <<"1">> \o [i \in 1..16 |-> "0"]}}

LiteralCases ==
    {Case("literal", t, NoConfig) :
        t \in {<<Num(c)>> : c \in DecimalLiterals \cup HexLiterals}
          \cup {<<Opr("-"), Num(c)>> : c \in DecimalLiterals \cup HexLiterals}
          \cup {<<Num(c), Opr("+"), Id("a")>> : c \in DecimalLiterals \cup HexLiterals}}

BuiltinNames == {"len", "first", "foo", "filter"}

DisabledSets == {{}, {"len"}, {"len", "first"}, {"foo"}, {"filter"}}

BuiltinCases ==
    LET x == <<Id("x")>>
        y == <<Id("y")>>
    IN  {Case("builtin", t, Config(d, {})) :
            t \in {CallText(f, <<x>>) : f \in BuiltinNames}
              \cup {CallText(f, <<x, y>>) : f \in BuiltinNames}
              \cup {PipeText(x, f, <<>>) : f \in BuiltinNames}
              \cup {PipeText(x, f, <<y>>) : f \in BuiltinNames},
            d \in DisabledSets}

NumericAtoms == {<<Num(<<"1">>)>>, <<Num(<<"0">>)>>, <<Num(<<"2", ".", "5">>)>>}

OtherAtoms == {<<Str("s")>>, <<Id("true")>>, <<Id("nil")>>}

ArithmeticOperators == {"+", "-", "*", "/", "**", "^"}

\* The expressions of one operator over the atoms.
Flat(atoms, unary, binary) ==
    atoms
      \cup {<<Opr(op)>> \o x : op \in unary, x \in atoms}
      \cup {x \o <<Opr(op)>> \o y : op \in binary, x \in atoms, y \in atoms}

\* The expressions of nesting depth d: an operator applied to expressions of
\* depth d - 1, in parentheses.
RECURSIVE Nested(_, _, _, _)
Nested(d, atoms, unary, binary) ==
    IF d <= 1 THEN Flat(atoms, unary, binary)
    ELSE LET sub == Nested(d - 1, atoms, unary, binary)
         IN  sub
               \cup {<<Opr("-")>> \o Paren(e) : e \in sub}
               \cup {Paren(e) \o <<Opr(op)>> \o <<Num(<<"1">>)>> : op \in {"+", "/"}, e \in sub}
               \cup {<<Num(<<"1">>)>> \o <<Opr(op)>> \o Paren(e) : op \in {"*", "**"}, e \in sub}

ArithmeticCases ==
    {Case("arithmetic", t, NoConfig) :
        t \in Nested(MaxDepth, NumericAtoms, {"-", "+"}, ArithmeticOperators)}

\* Arithmetic over literals that are not numbers, and the remainder operator.
OtherArithmeticCases ==
    {Case("otherArithmetic", t, NoConfig) :
        t \in Flat(NumericAtoms \cup OtherAtoms, {"-", "+"}, ArithmeticOperators \cup {"%"})
                \ Flat(NumericAtoms, {"-", "+"}, ArithmeticOperators)}

Comparisons ==
    {x \o <<Opr(op)>> \o y :
        op \in {"==", "!=", "<", "<=", ">", ">="},
        x \in {<<Num(<<"1">>)>>, <<Num(<<"2">>)>>, <<Str("s")>>},
        y \in {<<Num(<<"1">>)>>, <<Num(<<"2">>)>>, <<Str("s")>>}}

LogicalCases ==
    {Case("logical", t, NoConfig) :
        t \in {<<Id(b), Opr(op)>> \o Paren(c) :
                  b \in {"true", "false"}, op \in {"&&", "and", "||", "or"}, c \in Comparisons}
          \cup {Paren(c) \o <<Opr(op), Id(b)>> :
                  b \in {"true", "false"}, op \in {"&&", "and", "||", "or"}, c \in Comparisons}}

Predicates ==
    {<<Opr("#"), Opr(">"), Num(<<"1">>)>>,
     <<Opr("#"), Opr("<"), Num(<<"4">>)>>,
     <<Opr("."), Id("x")>>}

Sources == {<<Id("s")>>, <<Id("s"), Opr("."), Id("xs")>>}

\* filter(...filter(filter(s, P1), P2)..., Pn)
RECURSIVE FilterText(_, _)
FilterText(s, ps) ==
    IF ps = <<>> THEN s
    ELSE CallText("filter", <<FilterText(s, SubSeq(ps, 1, Len(ps) - 1)), ps[Len(ps)]>>)

\* s | filter(P1) | ... | filter(Pn)
RECURSIVE FilterPipeText(_, _)
FilterPipeText(s, ps) ==
    IF ps = <<>> THEN s
    ELSE PipeText(FilterPipeText(s, SubSeq(ps, 1, Len(ps) - 1)), "filter", <<ps[Len(ps)]>>)

FilterCases ==
    {Case("filter", t, NoConfig) :
        t \in UNION {{FilterText(s, ps), FilterPipeText(s, ps)} :
                        s \in Sources,
                        ps \in UNION {[1..n -> Predicates] : n \in 1..MaxNest}}}

ConstFnCases ==
    LET n1   == <<Num(<<"1">>)>>
        n40  == <<Num(<<"4", "0">>)>>
        n0   == <<Num(<<"0">>)>>
        call == {CallText("add2", <<n40>>), CallText("add2", <<n1>>),
                 CallText("add2", <<CallText("add2", <<n1>>)>>),
                 CallText("add2", <<n1 \o <<Opr("+")>> \o n1>>),
                 CallText("add2", << <<Id("a")>> >>),
                 CallText("add2", << <<Str("s")>> >>),
                 CallText("add2", <<n1, n1>>),
                 CallText("div", <<n40, n1>>), CallText("div", <<n1, n0>>),
                 CallText("fail", <<n1>>)}
    IN  {Case("constFn", t, Config({}, fns)) :
            t \in call
              \cup {c \o <<Opr(op)>> \o n1 : c \in call, op \in {"+", "*", "=="}}
              \cup {n1 \o <<Opr(op)>> \o c : c \in call, op \in {"+", "-"}}
              \cup {<<Opr("-")>> \o c : c \in call},
            fns \in {{"add2", "div", "fail"}, {"add2"}, {}}}

SpecializationCases ==
    LET x    == <<Id("x")>>
        n1   == <<Num(<<"1">>)>>
        n3   == <<Num(<<"3">>)>>
        p    == <<Opr("#"), Opr(">"), Num(<<"1">>)>>
        filt == CallText("filter", <<x, p>>)
    IN  {Case("specialization", t, NoConfig) :
            t \in {x \o <<Opr("in"), Brk("["), Num(<<"1">>), Opr(","), Num(<<"3">>), Brk("]")>>,
                   x \o <<Opr("in"), Brk("["), Str("s"), Brk("]")>>,
                   x \o <<Opr("in")>> \o n1 \o <<Opr("..")>> \o n3,
                   n1 \o <<Opr("..")>> \o n3,
                   CallText("map", <<filt, <<Opr("#")>> >>),
                   CallText("len", <<filt>>),
                   CallText("last", <<filt>>),
                   CallText("first", <<filt>>),
                   <<Brk("[")>> \o n1 \o <<Opr(",")>> \o n3 \o <<Brk("]")>>}}

\* Remainders of integer literals, alone and as the two operands of an
\* operator, the right operand also a sum.
ModuloCases ==
    LET mods == {<<Num(<<a>>), Opr("%"), Num(<<b>>)>> : a \in {"1", "7"}, b \in {"0", "2"}}
        sum  == <<Num(<<"1">>), Opr("+"), Num(<<"2">>)>>
    IN  {Case("modulo", t, NoConfig) :
            t \in mods
              \cup {Paren(l) \o <<Opr(op)>> \o Paren(r) :
                       l \in mods, op \in {"+", "==", "and"}, r \in mods \cup {sum}}
              \cup {l \o <<Opr("+")>> \o r : l \in mods, r \in mods}}

\* a not OP c and a OP1 b not OP2 c, also with nothing or an operand after
\* the `not`.
NegationCases ==
    LET a    == <<Id("a")>>
        tail == {<<Opr("not"), Opr(op), Id("c")>> :
                    op \in {"in", "contains", "matches", "+", "==", "and"}}
                  \cup {<<Opr("not")>>, <<Opr("not"), Id("c")>>}
    IN  {Case("negation", t, NoConfig) :
            t \in {a \o x : x \in tail}
              \cup {a \o <<Opr(op), Id("b")>> \o x :
                       op \in {"*", "+", "==", "and", "or", "in", ".."}, x \in tail}}

Cases ==
    OperatorCases \cup CoalescePipeCases \cup CoalesceParenCases
      \cup GarbageCases \cup ClosureCases
      \cup LiteralCases \cup BuiltinCases \cup ArithmeticCases
      \cup OtherArithmeticCases \cup LogicalCases \cup FilterCases
      \cup ConstFnCases \cup SpecializationCases \cup ModuloCases \cup NegationCases

(***************************************************************************)
(* The program: ParseWithConfig, then Optimize on the tree it returned.    *)
(***************************************************************************)
VARIABLES family, input, config, pc, parser, stack, result, tree, err, node,
          limit, optErr

vars ==
    <<family, input, config, pc, parser, stack, result, tree, err, node, limit,
      optErr>>

Init ==
    \E c \in Cases :
        /\ family = c.family
        /\ input = c.lexemes
        /\ config = c.config
        /\ pc = "ParseWithConfig"
        /\ parser = NewParser(Lex(c.lexemes), c.config)
        /\ stack = <<>>
        /\ result = NoNode
        /\ tree = NoNode
        /\ err = NoErr
        /\ node = NoNode
        /\ limit = 0
        /\ optErr = NoErr

\* The iteration caps of the two fixpoint loops of Optimize.
FoldLimit == 1000

ConstExprLimit == 100

\* func ParseWithConfig(input string, config *conf.Config) (*Tree, error),
\* up to its call of p.parseExpression(0).
ParseWithConfig ==
    /\ pc = "ParseWithConfig"
    /\ pc' = "parse"
    /\ stack' = <<callParseExpression(0)>>
    /\ UNCHANGED <<family, input, config, parser, result, tree, err, node, limit,
                   optErr>>

\* A parse method is running: its frame is the last of the stack.
Running(fn) == pc = "parse" /\ stack # <<>> /\ Last(stack).fn = fn

\* The running method runs up to its next call or to its return.
Step(o) ==
    /\ parser' = o.p
    /\ stack' = o.stack
    /\ result' = o.result
    /\ UNCHANGED <<family, input, config, pc, tree, err, node, limit, optErr>>

ParseExpression ==
    Running("parseExpression") /\ Step(parseExpression(parser, stack, result))

ParseVariableDeclaration ==
    /\ Running("parseVariableDeclaration")
    /\ Step(parseVariableDeclaration(parser, stack, result))

ParseConditional ==
    Running("parseConditional") /\ Step(parseConditional(parser, stack, result))

ParsePrimary ==
    Running("parsePrimary") /\ Step(parsePrimary(parser, stack, result))

ParseSecondary ==
    Running("parseSecondary") /\ Step(parseSecondary(parser, stack, result))

ParseCall == Running("parseCall") /\ Step(parseCall(parser, stack, result))

ParseClosure ==
    Running("parseClosure") /\ Step(parseClosure(parser, stack, result))

ParseArrayExpression ==
    /\ Running("parseArrayExpression")
    /\ Step(parseArrayExpression(parser, stack, result))

ParseMapExpression ==
    /\ Running("parseMapExpression")
    /\ Step(parseMapExpression(parser, stack, result))

ParsePostfixExpression ==
    /\ Running("parsePostfixExpression")
    /\ Step(parsePostfixExpression(parser, stack, result))

ParsePipe == Running("parsePipe") /\ Step(parsePipe(parser, stack, result))

ParseArguments ==
    Running("parseArguments") /\ Step(parseArguments(parser, stack, result))

\* ParseWithConfig after p.parseExpression(0): the check for the end of the
\* input.
expectEOF(p) ==
    IF ~Is(p.current, "EOF") THEN error(p, UnexpectedToken(p.current)) ELSE p

\* What ParseWithConfig returns, an error and no tree or a tree and no error.
\* Optimize works on the tree in place: node is the tree as the optimizer has
\* rewritten it so far.
Return(p) ==
    /\ parser' = p
    /\ err' = p.err
    /\ tree' = IF p.err # NoErr THEN NoNode ELSE result
    /\ node' = IF p.err # NoErr THEN NoNode ELSE result
    /\ pc' = IF p.err # NoErr THEN "failed" ELSE "inArray"

\* ParseWithConfig from the return of p.parseExpression(0).
ParseReturn ==
    /\ pc = "parse"
    /\ stack = <<>>
    /\ Return(expectEOF(parser))
    /\ UNCHANGED <<family, input, config, stack, result, limit, optErr>>

\* One single-pass walk of Optimize.
SinglePass(pass, after) ==
    /\ pc = pass
    /\ node' = Walk(node, Visitor(pass, {})).node
    /\ pc' = after
    /\ UNCHANGED <<family, input, config, parser, stack, result, tree, err, optErr>>

InArray == SinglePass("inArray", "fold") /\ limit' = FoldLimit

\* After the fold loop: the constExpr loop runs only with registered functions.
AfterFold ==
    IF config.ConstFns # {}
    THEN pc' = "constExpr" /\ limit' = ConstExprLimit
    ELSE pc' = "inRange" /\ limit' = limit

\* The fold loop left after its first walk, whether or not it patched.
FoldOnce ==
    /\ pc = "fold"
    /\ LET w == Walk(node, Visitor("fold", {}))
       IN  /\ node' = w.node
           /\ optErr' = w.v.err
           /\ IF w.v.err # NoErr THEN pc' = "returned" /\ limit' = limit
              ELSE AfterFold
    /\ UNCHANGED <<family, input, config, parser, stack, result, tree, err>>

\* One iteration of a fixpoint loop of Optimize: a walk, then return the
\* error, or leave the loop when nothing was patched or the cap is reached.
Fold ==
    /\ pc = "fold"
    /\ LET w == Walk(node, Visitor("fold", {}))
       IN  /\ node' = w.node
           /\ optErr' = w.v.err
           /\ IF w.v.err # NoErr THEN pc' = "returned" /\ limit' = limit
              ELSE IF w.v.applied /\ limit - 1 >= 0
              THEN pc' = "fold" /\ limit' = limit - 1
              ELSE AfterFold
    /\ UNCHANGED <<family, input, config, parser, stack, result, tree, err>>

\* The constExpr loop without the return of its error.
ConstExprGoesOn ==
    /\ pc = "constExpr"
    /\ LET w == Walk(node, Visitor("constExpr", config.ConstFns))
       IN  /\ node' = w.node
           /\ optErr' = w.v.err
           /\ IF w.v.applied /\ limit - 1 >= 0
              THEN pc' = "constExpr" /\ limit' = limit - 1
              ELSE pc' = "inRange" /\ limit' = limit
    /\ UNCHANGED <<family, input, config, parser, stack, result, tree, err>>

ConstExpr ==
    /\ pc = "constExpr"
    /\ LET w == Walk(node, Visitor("constExpr", config.ConstFns))
       IN  /\ node' = w.node
           /\ optErr' = w.v.err
           /\ IF w.v.err # NoErr THEN pc' = "returned" /\ limit' = limit
              ELSE IF w.v.applied /\ limit - 1 >= 0
              THEN pc' = "constExpr" /\ limit' = limit - 1
              ELSE pc' = "inRange" /\ limit' = limit
    /\ UNCHANGED <<family, input, config, parser, stack, result, tree, err>>

InRange == SinglePass("inRange", "constRange") /\ limit' = limit

ConstRange == SinglePass("constRange", "filterMap") /\ limit' = limit

FilterMap == SinglePass("filterMap", "filterLen") /\ limit' = limit

FilterLen == SinglePass("filterLen", "filterLast") /\ limit' = limit

FilterLast == SinglePass("filterLast", "filterFirst") /\ limit' = limit

FilterFirst == SinglePass("filterFirst", "returned") /\ limit' = limit

Next ==
    \/ ParseWithConfig
    \/ ParseExpression
    \/ ParseVariableDeclaration
    \/ ParseConditional
    \/ ParsePrimary
    \/ ParseSecondary
    \/ ParseCall
    \/ ParseClosure
    \/ ParseArrayExpression
    \/ ParseMapExpression
    \/ ParsePostfixExpression
    \/ ParsePipe
    \/ ParseArguments
    \/ ParseReturn
    \/ InArray
    \/ Fold
    \/ ConstExpr
    \/ InRange
    \/ ConstRange
    \/ FilterMap
    \/ FilterLen
    \/ FilterLast
    \/ FilterFirst

Spec == Init /\ [][Next]_vars

(***************************************************************************)
(* The properties.                                                         *)
(***************************************************************************)
\* ParseWithConfig has returned.
Parsed == pc \notin {"ParseWithConfig", "parse"}

\* C1: at every point of a parse the error slot holds the earliest error
\* report (its location and message), and holds none while none was made;
\* ParseWithConfig returns that earliest error and no tree if an error was
\* reported, and a tree and no error otherwise.
C1_FirstErrorIsKept ==
    /\ parser.err = IF parser.reports = <<>> THEN NoErr ELSE parser.reports[1]
    /\ Parsed =>
          IF parser.reports # <<>>
          THEN err = parser.reports[1] /\ tree = NoNode
          ELSE err = NoErr /\ tree # NoNode

\* C1, witness: a parse that reported two different errors has returned.
C1_Witness ==
    /\ pc = "failed"
    /\ Len(parser.reports) >= 2
    /\ parser.reports[2] # parser.reports[1]

IsOperator(lexeme) == lexeme.kind = "Operator"

\* The operators of the input, in order.
Operators == SelectSeq(input, IsOperator)

IsOperand(n, name) == n.kind = "Identifier" /\ n.name = name

\* Binary(op2, Binary(op1, a, b), c)
GroupsLeft(n, op1, op2) ==
    /\ n.kind = "Binary" /\ n.op = op2
    /\ n.left.kind = "Binary" /\ n.left.op = op1
    /\ IsOperand(n.left.left, "a") /\ IsOperand(n.left.right, "b")
    /\ IsOperand(n.right, "c")

\* Binary(op1, a, Binary(op2, b, c))
GroupsRight(n, op1, op2) ==
    /\ n.kind = "Binary" /\ n.op = op1
    /\ IsOperand(n.left, "a")
    /\ n.right.kind = "Binary" /\ n.right.op = op2
    /\ IsOperand(n.right.left, "b") /\ IsOperand(n.right.right, "c")

\* C2: for operators OP1, OP2 of the binary table other than `|` and `??`,
\* `a OP1 b OP2 c` parses without error to Binary(OP2, Binary(OP1, a, b), c)
\* when OP1 binds tighter or the precedences are equal and the operator is
\* left-associative, and to Binary(OP1, a, Binary(OP2, b, c)) when OP2 binds
\* tighter or the precedences are equal and the operator is
\* right-associative.
C2_Grouping ==
    (family = "operators" /\ Parsed
       /\ Operators[1].value \notin {"|", "??"}
       /\ Operators[2].value \notin {"|", "??"}) =>
      LET op1 == Operators[1].value
          op2 == Operators[2].value
          p1  == Binary[op1].Precedence
          p2  == Binary[op2].Precedence
      IN  /\ err = NoErr
          /\ (p1 > p2 \/ (p1 = p2 /\ Binary[op1].Associativity = "Left"))
                => GroupsLeft(tree, op1, op2)
          /\ (p2 > p1 \/ (p1 = p2 /\ Binary[op1].Associativity = "Right"))
                => GroupsRight(tree, op1, op2)

\* C2, witness: `a - b + c`, two left-associative operators of equal
\* precedence, has been parsed to (a - b) + c.
C2_Witness ==
    /\ family = "operators" /\ pc = "inArray"
    /\ Operators[1].value = "-" /\ Operators[2].value = "+"
    /\ GroupsLeft(tree, "-", "+")

\* The input is `a ?? b OP c`: a nil-coalesce followed by a second operator.
AfterCoalesce ==
    /\ family \in {"operators", "coalescePipe"}
    /\ Parsed
    /\ Operators[1].value = "??"

\* C3 as stated: `a ?? b OP c` fails for every operator OP of the binary
\* table other than `??`.
C3_Original == (AfterCoalesce /\ Operators[2].value # "??") => err # NoErr

\* C3, amended: `a ?? b OP c` fails with a parse error for every operator OP
\* of the binary table other than `??` and `|`; `a ?? b ?? c`, the pipe
\* `a ?? b | f(args)` and the parenthesized forms `(a ?? b) OP c` and
\* `a ?? (b OP c)` are accepted.
C3_CoalesceMixing ==
    /\ (AfterCoalesce /\ Operators[2].value \notin {"??", "|"}) =>
          err # NoErr /\ tree = NoNode
    /\ (AfterCoalesce /\ Operators[2].value = "??") => err = NoErr
    /\ (family \in {"coalescePipe", "coalesceParen"} /\ Parsed) => err = NoErr

\* C3, witness: `a ?? b + c` has been refused with the mixing error.
C3_Witness ==
    /\ AfterCoalesce /\ pc = "failed"
    /\ Operators[2].value = "+"
    /\ err.Message[2] = "+"

\* The children of a node.
Children(n) ==
    CASE n.kind \in {"Unary", "Chain", "Closure"} -> <<n.node>>
      [] n.kind = "Binary" -> <<n.left, n.right>>
      [] n.kind = "Member" -> <<n.node, n.property>>
      [] n.kind = "Slice" -> <<n.node, n.from, n.to>>
      [] n.kind = "Call" -> <<n.callee>> \o n.args
      [] n.kind = "Builtin" -> n.args
      [] n.kind = "Array" -> n.nodes
      [] n.kind = "Map" -> n.pairs
      [] n.kind = "Pair" -> <<n.key, n.value>>
      [] n.kind = "Conditional" -> <<n.cond, n.exp1, n.exp2>>
      [] n.kind = "VariableDeclarator" -> <<n.value, n.expr>>
      [] OTHER -> <<>>

\* The nodes of a tree.
RECURSIVE Nodes(_)
Nodes(n) ==
    {n} \cup UNION {Nodes(Children(n)[i]) : i \in 1..Len(Children(n))}

\* The Pointer nodes of a tree that lie in the subtree of no Closure node.
RECURSIVE FreePointers(_)
FreePointers(n) ==
    IF n.kind = "Closure" THEN {}
    ELSE IF n.kind = "Pointer" THEN {n}
    ELSE UNION {FreePointers(Children(n)[i]) : i \in 1..Len(Children(n))}

PointerMessage == <<"cannot use pointer accessor outside closure">>

\* The closure bodies being parsed: the calls of parseClosure that wait for
\* their body.
OpenClosures ==
    {i \in 1..Len(stack) : stack[i].fn = "parseClosure" /\ stack[i].pc = "node"}

\* What C4 says of Pointer nodes and of the depth counter: a Pointer node is
\* built only at closure depth > 0 and lies inside a Closure in the tree
\* returned; the depth is the number of closure bodies being parsed, so it
\* is never negative and is 0 when parsing ends.
PointersAndDepth ==
    /\ \A d \in parser.pointerDepths : d > 0
    /\ pc = "inArray" => FreePointers(tree) = {}
    /\ parser.depth >= 0
    /\ pc = "parse" => parser.depth = Cardinality(OpenClosures)
    /\ Parsed => parser.depth = 0

\* C4 as stated: besides, whenever parsePrimary met a `#` or `.` token at
\* closure depth 0, the parse fails and the error returned has the message
\* "cannot use pointer accessor outside closure".
C4_Original ==
    /\ PointersAndDepth
    /\ \A i \in 1..Len(parser.primaryPointers) :
          (Parsed /\ parser.primaryPointers[i].depth = 0) =>
              err.Message = PointerMessage /\ tree = NoNode

\* C4, amended: whenever parsePrimary met a `#` or `.` token at closure depth
\* 0 the parse fails; the error returned has the message "cannot use pointer
\* accessor outside closure" if no error was reported before the token was
\* met, and is that earlier error otherwise, never a later one.
C4_PointerOnlyInClosure ==
    /\ PointersAndDepth
    /\ \A i \in 1..Len(parser.primaryPointers) :
          (Parsed /\ parser.primaryPointers[i].depth = 0) =>
              /\ err # NoErr /\ tree = NoNode
              /\ IF parser.primaryPointers[i].reported = 0
                 THEN err.Message = PointerMessage
                 ELSE err = parser.reports[1]
                        /\ parser.primaryPointers[i].reported >= 1

\* C4, witness: `filter(a, #) + #` has been parsed: a Pointer was built in
\* the closure, the second `#` was met at depth 0 and its error returned.
C4_Witness ==
    /\ pc = "failed"
    /\ parser.pointerDepths = {1}
    /\ Len(parser.primaryPointers) = 2
    /\ parser.primaryPointers[2] = [depth |-> 0, reported |-> 0]
    /\ err.Message = PointerMessage

\* The input is one integer literal, decimal or hex.
IsIntegerLiteral ==
    family = "literal" /\ Len(input) = 1 /\ input[1].kind = "Number"

\* The value an integer literal denotes.
LiteralValue(chars) ==
    LET hex == Contains(chars, "x")
        digits == StripUnderscores(IF hex THEN SubSeq(chars, 3, Len(chars))
                                   ELSE chars)
    IN  [neg |-> FALSE,
         mag |-> Accumulate(digits, IF hex THEN 16 ELSE 10, <<0>>)]

\* C5: a decimal or hex integer literal whose value is >= MaxInt + 1 makes
\* the parse fail with the message "integer literal is too large", and a
\* literal whose value is <= MaxInt parses to Integer(value).
C5_Original ==
    (IsIntegerLiteral /\ Parsed) =>
        IF IntGreater(LiteralValue(input[1].value), MaxInt)
        THEN err.Message = <<"integer literal is too large">>
        ELSE err = NoErr /\ tree = IntegerNode(LiteralValue(input[1].value), 0)

\* The input is the call form f(args) or the pipe form x | f(args).
IsPipeForm == input[2] = Opr("|")

FunctionName == IF IsPipeForm THEN input[3].value ELSE input[1].value

\* The names of the arguments of the call f(x, args) that the input denotes.
ArgumentNames ==
    LET ids == SelectSeq(input, LAMBDA l : l.kind = "Identifier")
        fi  == IF IsPipeForm THEN 2 ELSE 1
    IN  [i \in 1..(Len(ids) - 1) |-> ids[IF i < fi THEN i ELSE i + 1].value]

\* Call(Identifier(f), arguments)
IsCallOf(n, f, names) ==
    /\ n.kind = "Call"
    /\ n.callee.kind = "Identifier" /\ n.callee.name = f
    /\ Len(n.args) = Len(names)
    /\ \A i \in 1..Len(names) : IsOperand(n.args[i], names[i])

\* C6: with a builtin that is no predicate in the disabled set of the
\* configuration, the tree ParseWithConfig returns holds no Builtin node of
\* that name, and the call form f(args) and the pipe form x | f(args) both
\* parse to Call(Identifier(f), ...), the pipe form to the node of f(x, args).
C6_Original ==
    (family = "builtin" /\ pc = "inArray") =>
        /\ \A n \in Nodes(tree) :
              n.kind = "Builtin" =>
                  ~(n.name \in config.Disabled /\ n.name \notin DOMAIN predicates)
        /\ (FunctionName \in (config.Disabled \cap BuiltinIndex) \ DOMAIN predicates)
              => IsCallOf(tree, FunctionName, ArgumentNames)

LiteralKinds == {"Nil", "Bool", "Integer", "Float", "String", "Constant"}

\* C7 as stated: Optimize leaves every expression built from literals with
\* the unary operators - and + and the binary operators + - * / ** ^ as a
\* single literal or Constant node, without error.
C7_Original ==
    (family \in {"arithmetic", "otherArithmetic"} /\ pc = "returned"
       /\ \A i \in 1..Len(input) : input[i] # Opr("%")) =>
        optErr = NoErr /\ node.kind \in LiteralKinds

\* C7, amended: Optimize leaves every such expression built from Integer and
\* Float literals as a single Integer or Float literal, without error, and
\* the fold loop ends because a walk patched nothing, after at most as many
\* patching walks as the expression is deep.
C7_ArithmeticFolds ==
    family = "arithmetic" =>
        /\ pc = "returned" => optErr = NoErr /\ node.kind \in {"Integer", "Float"}
        /\ pc = "fold" => limit >= FoldLimit - MaxDepth
        /\ pc \notin {"failed", "constExpr"}

\* C7, witness: Optimize has returned a single literal for an expression of
\* two operators, one in the operand of the other.
C7_Witness ==
    /\ family = "arithmetic" /\ pc = "returned"
    /\ tree.kind \in {"Unary", "Binary"}
    /\ \E i \in 1..Len(Children(tree)) :
          Children(tree)[i].kind \in {"Unary", "Binary"}
    /\ node.kind \in {"Integer", "Float"}

\* add2(40) + 1
Add2Text == CallText("add2", <<<<Num(<<"4", "0">>)>>>>) \o <<Opr("+"), Num(<<"1">>)>>

\* C8: with the pure function add2 registered, Optimize leaves
\* `add2(40) + 1` as Integer(43), and no Unary or Binary node whose operands
\* are all literals or Constants remains after Optimize.
C8_Original ==
    (family = "constFn" /\ pc = "returned" /\ optErr = NoErr) =>
        /\ (input = Add2Text /\ "add2" \in config.ConstFns) =>
              node.kind = "Integer" /\ node.ival = FromInt(43)
        /\ \A n \in Nodes(node) :
              n.kind \in {"Unary", "Binary"} =>
                  \E i \in 1..Len(Children(n)) :
                      Children(n)[i].kind \notin LiteralKinds

\* true && (1 < 2)
TrueAndLessText ==
    <<Id("true"), Opr("&&")>> \o Paren(<<Num(<<"1">>), Opr("<"), Num(<<"2">>)>>)

\* C9: Optimize leaves a logical && or || expression of a bool literal and a
\* comparison of two literals as a single Bool literal, and `true && (1 < 2)`
\* as Bool(true).
C9_Original ==
    (family = "logical" /\ pc = "returned") =>
        /\ optErr = NoErr
        /\ node.kind = "Bool"
        /\ input = TrueAndLessText => node.bval = TRUE

\* The source and the predicates of filter(...filter(filter(s, P1), P2)..., Pn)
RECURSIVE FilterSource(_)
FilterSource(n) ==
    IF n.kind = "Builtin" /\ n.name = "filter" /\ Len(n.args) = 2
    THEN FilterSource(n.args[1]) ELSE n

RECURSIVE FilterPredicates(_)
FilterPredicates(n) ==
    IF n.kind = "Builtin" /\ n.name = "filter" /\ Len(n.args) = 2
    THEN FilterPredicates(n.args[1]) \o <<n.args[2]>> ELSE <<>>

\* The operands of a conjunction, from left to right, however it groups.
RECURSIVE Conjuncts(_)
Conjuncts(n) ==
    IF n.kind = "Binary" /\ n.op = "&&"
    THEN Conjuncts(n.left) \o Conjuncts(n.right) ELSE <<n>>

IsFilterNode(n) == n.kind = "Builtin" /\ n.name = "filter"

AfterFoldLoop ==
    pc \in {"constExpr", "inRange", "constRange", "filterMap", "filterLen",
            "filterLast", "filterFirst", "returned"}

PassesAfter(pass) ==
    CASE pass = "inArray"     -> {"fold"}
      [] pass = "fold"        ->
           {"fold", "returned"}
             \cup (IF config.ConstFns # {} THEN {"constExpr"} ELSE {"inRange"})
      [] pass = "constExpr"   -> {"constExpr", "inRange", "returned"}
      [] pass = "inRange"     -> {"constRange"}
      [] pass = "constRange"  -> {"filterMap"}
      [] pass = "filterMap"   -> {"filterLen"}
      [] pass = "filterLen"   -> {"filterLast"}
      [] pass = "filterLast"  -> {"filterFirst"}
      [] pass = "filterFirst" -> {"returned"}
      [] OTHER                -> {}

Passes ==
    {"inArray", "fold", "constExpr", "inRange", "constRange", "filterMap",
     "filterLen", "filterLast", "filterFirst"}

\* C11: every step of Optimize goes from a pass to the same pass (fold,
\* constExpr) or to the next of the order inArray, fold, constExpr, inRange,
\* constRange, filterMap, filterLen, filterLast, filterFirst; a step whose
\* walk recorded an error is a fold or constExpr walk and goes to the return
\* with that error, and no step follows the return.
C11_PassOrder ==
    [][/\ pc \in Passes => pc' \in PassesAfter(pc)
       /\ pc' \in Passes \ {"inArray"} => pc \in Passes
       /\ pc # "returned"
       /\ optErr = NoErr
       /\ optErr' # NoErr <=>
             /\ pc \in {"fold", "constExpr"}
             /\ Walk(node, Visitor(pc, config.ConstFns)).v.err # NoErr
       /\ optErr' # NoErr =>
             /\ pc' = "returned"
             /\ optErr' = Walk(node, Visitor(pc, config.ConstFns)).v.err]_vars

\* C11, witness: Optimize has returned the error of a constExpr walk that
\* ran after the fold loop.
C11_Witness ==
    /\ pc = "returned" /\ optErr # NoErr
    /\ config.ConstFns # {}
    /\ \E n \in Nodes(node) :
          n.kind = "Call" /\ n.callee.kind = "Identifier"
            /\ n.callee.name \in config.ConstFns

\* The Call nodes of a tree whose callee is a registered pure function.
RegisteredCalls(n) ==
    {c \in Nodes(n) : c.kind = "Call" /\ c.callee.kind = "Identifier"
                        /\ c.callee.name \in config.ConstFns}

\* C12: an error that Optimize returns from the constExpr pass has the
\* location of a Call node of a registered function, whether the function
\* returned the error or panicked, and a panic's "runtime error:" reads
\* "compile error:".
C12_Original ==
    (family = "constFn" /\ pc = "returned" /\ optErr # NoErr) =>
        /\ \E c \in RegisteredCalls(node) : optErr.Location = c.loc
        /\ Head(optErr.Message) # "runtime error:"

\* The node at which a fold walk of n first records an error, NoNode when it
\* records none: the walk visits a node, then its children in order unless it
\* patched the node.
RECURSIVE FirstError(_)
RECURSIVE FirstErrorIn(_)
FirstErrorIn(nodes) ==
    IF nodes = <<>> THEN NoNode
    ELSE IF FirstError(Head(nodes)) # NoNode THEN FirstError(Head(nodes))
    ELSE FirstErrorIn(Tail(nodes))

FirstError(n) ==
    IF n = NoNode THEN NoNode
    ELSE LET r == foldVisit(n, Visitor("fold", {}))
         IN  IF r.v.err # NoErr THEN n
             ELSE IF r.patched THEN NoNode
             ELSE FirstErrorIn(Children(n))

\* C13: a fold walk that meets `a % b` with integer literals a, b and b = 0
\* ends Optimize with "integer divide by zero" at the location of the first
\* such node the walk visits, and rewrites nothing it visits after that node:
\* when the node lies in the left operand of the root, the right operand is
\* left as it was.
C13_Original ==
    [][(pc = "fold" /\ optErr' # NoErr) =>
          /\ pc' = "returned"
          /\ optErr' = FileError(FirstError(node).loc, <<"integer divide by zero">>)
          /\ (node.kind = "Binary" /\ FirstError(node.left) # NoNode) =>
                node'.right = node.right]_vars

\* The index in the input of its `not`.
NotIndex == CHOOSE i \in 1..Len(input) : input[i] = Opr("not")

\* C14: after parseExpression has consumed a `not` in the position of a
\* binary operator, either the parse reports an error or the tree holds a
\* Unary("not") node, located at the `not` token, around the Binary node of
\* the operator that follows the `not`.
C14_Original ==
    (family = "negation" /\ Parsed) =>
        \/ err # NoErr
        \/ \E n \in Nodes(tree) :
              /\ n.kind = "Unary" /\ n.op = "not"
              /\ n.loc = Lex(input)[NotIndex].loc
              /\ n.node.kind = "Binary"
              /\ NotIndex < Len(input) /\ n.node.op = input[NotIndex + 1].value

\* The number of nodes of a tree and the length of its longest path.
RECURSIVE Size(_)
RECURSIVE SizeOf(_)
SizeOf(nodes) == IF nodes = <<>> THEN 0 ELSE Size(Head(nodes)) + SizeOf(Tail(nodes))

Size(n) == IF n = NoNode THEN 0 ELSE 1 + SizeOf(Children(n))

RECURSIVE Depth(_)
RECURSIVE DepthOf(_)
DepthOf(nodes) ==
    IF nodes = <<>> THEN 0
    ELSE LET h == Depth(Head(nodes))
             t == DepthOf(Tail(nodes))
         IN  IF h > t THEN h ELSE t

Depth(n) == IF n = NoNode THEN 0 ELSE 1 + DepthOf(Children(n))

\* The number of filter Builtin nodes of a tree.
RECURSIVE Filters(_)
RECURSIVE FiltersOf(_)
FiltersOf(nodes) ==
    IF nodes = <<>> THEN 0 ELSE Filters(Head(nodes)) + FiltersOf(Tail(nodes))

Filters(n) ==
    IF n = NoNode THEN 0
    ELSE (IF IsFilterNode(n) THEN 1 ELSE 0) + FiltersOf(Children(n))

\* The walks of the fold loop so far, the one about to run included.
FoldWalks == FoldLimit - limit + 1

FoldApplies == Walk(node, Visitor("fold", {})).v.applied

Measure(n) == Size(n) + Filters(n)

CreatesLiteral(n) ==
    \/ n.kind = "Unary"
    \/ n.kind = "Binary" /\ n.op \notin {"and", "&&", "or", "||"}

\* C16: every Integer, Float or String literal that the fold visitor creates
\* and patches in has the static type of its kind: integer, float, string.
C16_Original ==
    pc = "fold" =>
        \A n \in Nodes(node) :
            LET r == foldVisit(n, Visitor("fold", {}))
            IN  (CreatesLiteral(n) /\ r.patched /\ r.v.applied
                   /\ r.node.kind \in {"Integer", "Float", "String"}) =>
                    r.node.type = typeOf(r.node)

====
